---- MODULE Spec2Model ----
(***************************************************************************)
(* Command-planning and partial-failure execution pipeline of the          *)
(* smartfocus backend: services/nl_service.py (planner, executor),         *)
(* services/subject_service.py, services/event_service.py (domain          *)
(* services) and routers/v1_nl.py (the /api/v1/nl/command endpoint).       *)
(*                                                                         *)
(* Conventions.  A Python value that may be None, or a dict key that may   *)
(* be absent, is an "optional": <<>> for None/absent, <<v>> for v.         *)
(* A Python str is a sequence of one-character strings, so that strip()    *)
(* is computed and not assumed.  An exception is a record with ok = FALSE  *)
(* and the exception class in exc.                                         *)
(***************************************************************************)
EXTENDS Integers, Sequences, FiniteSets, TLC

VARIABLES db, pc, last

vars == <<db, pc, last>>

\* ------------------------------------------------------------------------
\* Bounds of the model
\* ------------------------------------------------------------------------
\* autoincrement values handed out by the materia / evento sequences
MaxMateriaId == 2
MaxEventoId == 2
\* length of one batch of tool calls / of one replayed action list
MaxBatch == 2
\* requests in flight at once
MaxRequests == 2

Usuarios == {1, 2}

\* ------------------------------------------------------------------------
\* Python values
\* ------------------------------------------------------------------------
None == <<>>
Some(v) == <<v>>
Val(o) == o[1]

\* str.strip(): drop leading and trailing blanks
RECURSIVE LStrip(_)
LStrip(s) == IF s # <<>> /\ Head(s) = " " THEN LStrip(Tail(s)) ELSE s

RECURSIVE RStrip(_)
RStrip(s) ==
    IF s # <<>> /\ s[Len(s)] = " " THEN RStrip(SubSeq(s, 1, Len(s) - 1)) ELSE s

Strip(s) == RStrip(LStrip(s))

\* truthiness of an optional str / optional int (None, "" and 0 are falsy)
TruthyStr(o) == o # None /\ Val(o) # <<>>
TruthyInt(o) == o # None /\ Val(o) # 0
\* truthiness of an optional tool name (a TLA+ string)
TruthyStrName(o) == o # None /\ Val(o) # ""

\* datetime.date.fromisoformat and pydantic's date parsing on the date
\* strings of the model: a calendar day (days since 2025-01-01) or, for a
\* string that is no ISO date, ValueError (None here)
fromisoformat(s) ==
    CASE s = "2025-03-01" -> Some(59)
      [] s = "2025-03-02" -> Some(60)
      [] OTHER -> None

EventoEstado == {"pendiente", "aprobado", "desaprobado"}

ArgKeys ==
    {"materia_id", "materia_ref", "materia_nombre", "materia_descripcion",
     "materia_usuario_id", "evento_id", "evento_ref", "evento_materia_id",
     "evento_nombre", "evento_fecha", "evento_estado", "evento_descripcion"}

\* a dict of arguments: every key of ArgKeys, absent (None) unless r has it
Args(r) == [k \in ArgKeys |-> IF k \in DOMAIN r THEN Some(r[k]) ELSE None]

\* d1 updated with the keys d2 has: {**d1, **d2}
Merge(d1, d2) == [k \in ArgKeys |-> IF d2[k] # None THEN d2[k] ELSE d1[k]]

\* ------------------------------------------------------------------------
\* The persistence layer (models.py): two tables and their sequences
\* ------------------------------------------------------------------------
EmptyDb ==
    [materias |-> {}, eventos |-> {}, nextMateriaId |-> 1, nextEventoId |-> 1]

\* Session.get(models.Materia, id): the row as an optional
GetMateria(d, id) ==
    IF \E m \in d.materias : m.materia_id = id
    THEN Some(CHOOSE m \in d.materias : m.materia_id = id)
    ELSE None

GetEvento(d, id) ==
    IF \E e \in d.eventos : e.evento_id = id
    THEN Some(CHOOSE e \in d.eventos : e.evento_id = id)
    ELSE None

\* Result.scalar_one_or_none(): the row, None, or MultipleResultsFound
Raise(e) == [ok |-> FALSE, exc |-> e]
Return(v) == [ok |-> TRUE, val |-> v]

scalar_one_or_none(rows) ==
    IF Cardinality(rows) > 1 THEN Raise("MultipleResultsFound")
    ELSE IF rows = {} THEN Return(None)
    ELSE Return(Some(CHOOSE r \in rows : TRUE))

\* ------------------------------------------------------------------------
\* schemas.py: pydantic validation of the payloads built from a.args
\* ------------------------------------------------------------------------
ValidNombre(o) == o # None /\ Len(Val(o)) >= 1

MateriaCreateValid(args) ==
    /\ ValidNombre(args.materia_nombre)
    /\ args.materia_usuario_id # None /\ Val(args.materia_usuario_id) >= 1

MateriaUpdateValid(args) ==
    args.materia_nombre # None => ValidNombre(args.materia_nombre)

EventoCreateValid(args) ==
    /\ ValidNombre(args.evento_nombre)
    /\ args.evento_fecha # None /\ fromisoformat(Val(args.evento_fecha)) # None
    /\ args.evento_estado # None => Val(args.evento_estado) \in EventoEstado
    /\ args.evento_materia_id # None /\ Val(args.evento_materia_id) >= 1

EventoUpdateValid(args) ==
    /\ args.evento_nombre # None => ValidNombre(args.evento_nombre)
    /\ args.evento_fecha # None => fromisoformat(Val(args.evento_fecha)) # None
    /\ args.evento_estado # None => Val(args.evento_estado) \in EventoEstado

\* ------------------------------------------------------------------------
\* Domain services: outcome of one call
\* ------------------------------------------------------------------------
\* the call raised e; the store is as it was
Fail(d, e) == [ok |-> FALSE, exc |-> e, db |-> d, val |-> None]
\* the call committed store d and returned v
Done(d, v) == [ok |-> TRUE, exc |-> "", db |-> d, val |-> Some(v)]

\* str(e) of the exceptions of the model: the domain exceptions are raised
\* without arguments, so their message is the empty string
StrExc(e) ==
    IF e \in {"MateriaNoEncontrada", "AccesoNoAutorizado", "MateriaDuplicada",
              "EventoNoEncontrado"}
    THEN "" ELSE e

\* ------------------------------------------------------------------------
\* services/subject_service.py
\* ------------------------------------------------------------------------
\* variant of get_materia_autorizada_exc without the comparison of the owner
MateriaAutorizadaExcNoOwner(d, materia_id, usuario_id) ==
    IF GetMateria(d, materia_id) = None THEN "MateriaNoEncontrada" ELSE ""

\* the exception _get_materia_autorizada raises, "" when it returns
get_materia_autorizada_exc(d, materia_id, usuario_id) ==
    LET materia == GetMateria(d, materia_id) IN
    IF materia = None THEN "MateriaNoEncontrada"
    ELSE IF Val(materia).materia_usuario_id # usuario_id THEN "AccesoNoAutorizado"
    ELSE ""

MateriasByName(d, usuario_id, nombre) ==
    {m \in d.materias :
        m.materia_usuario_id = usuario_id /\ m.materia_nombre = nombre}

\* create_subject up to the duplicate query: the exception it raises there,
\* "" when the name is free
create_subject_check(d, usuario_id, payload) ==
    LET nombre == Strip(Val(payload.materia_nombre))
        dup == scalar_one_or_none(MateriasByName(d, usuario_id, nombre))
    IN  IF ~dup.ok THEN dup.exc
        ELSE IF dup.val # None THEN "MateriaDuplicada"
        ELSE ""

\* variant of create_subject_insert on a table with a unique constraint on
\* (materia_usuario_id, materia_nombre)
CreateSubjectInsertUnique(d, usuario_id, payload) ==
    LET nombre == Strip(Val(payload.materia_nombre))
        materia == [materia_id |-> d.nextMateriaId,
                    materia_usuario_id |-> usuario_id,
                    materia_nombre |-> nombre,
                    materia_descripcion |-> payload.materia_descripcion]
    IN  IF MateriasByName(d, usuario_id, nombre) # {}
        THEN Fail(d, "IntegrityError")
        ELSE Done([d EXCEPT !.materias = @ \cup {materia},
                            !.nextMateriaId = @ + 1], materia)

\* create_subject from db.add to the return: the table has no constraint on
\* the name, so the insert and the commit always go through
create_subject_insert(d, usuario_id, payload) ==
    LET nombre == Strip(Val(payload.materia_nombre))
        materia == [materia_id |-> d.nextMateriaId,
                    materia_usuario_id |-> usuario_id,
                    materia_nombre |-> nombre,
                    materia_descripcion |-> payload.materia_descripcion]
    IN  Done([d EXCEPT !.materias = @ \cup {materia},
                       !.nextMateriaId = @ + 1], materia)

\* create_subject in one session with no other session committing meanwhile
create_subject(d, usuario_id, payload) ==
    IF create_subject_check(d, usuario_id, payload) # ""
    THEN Fail(d, create_subject_check(d, usuario_id, payload))
    ELSE create_subject_insert(d, usuario_id, payload)

\* variant of update_subject that renames without the duplicate query
UpdateSubjectNoDuplicateQuery(d, usuario_id, materia_id, payload) ==
    LET exc == get_materia_autorizada_exc(d, materia_id, usuario_id)
        materia == Val(GetMateria(d, materia_id))
        m1 == IF TruthyStr(payload.materia_nombre)
              THEN [materia EXCEPT
                      !.materia_nombre = Strip(Val(payload.materia_nombre))]
              ELSE materia
        m2 == IF payload.materia_descripcion # None
              THEN [m1 EXCEPT !.materia_descripcion = payload.materia_descripcion]
              ELSE m1
    IN  IF exc # "" THEN Fail(d, exc)
        ELSE Done([d EXCEPT !.materias = (@ \ {materia}) \cup {m2}], m2)

update_subject(d, usuario_id, materia_id, payload) ==
    LET exc == get_materia_autorizada_exc(d, materia_id, usuario_id)
        materia == Val(GetMateria(d, materia_id))
        rename == TruthyStr(payload.materia_nombre)
        nuevo_nombre == Strip(Val(payload.materia_nombre))
        dup == scalar_one_or_none(
                   {m \in MateriasByName(d, usuario_id, nuevo_nombre) :
                       m.materia_id # materia_id})
        m1 == IF rename THEN [materia EXCEPT !.materia_nombre = nuevo_nombre]
              ELSE materia
        m2 == IF payload.materia_descripcion # None
              THEN [m1 EXCEPT !.materia_descripcion = payload.materia_descripcion]
              ELSE m1
    IN  IF exc # "" THEN Fail(d, exc)
        ELSE IF rename /\ ~dup.ok THEN Fail(d, dup.exc)
        ELSE IF rename /\ dup.val # None THEN Fail(d, "MateriaDuplicada")
        ELSE Done([d EXCEPT !.materias = (@ \ {materia}) \cup {m2}], m2)

\* the delete cascades to the events of the subject (models.py, Materia.eventos)
\* variant of delete_subject on tables without ON DELETE CASCADE
DeleteSubjectNoCascade(d, usuario_id, materia_id) ==
    LET exc == get_materia_autorizada_exc(d, materia_id, usuario_id)
        materia == Val(GetMateria(d, materia_id))
    IN  IF exc # "" THEN Fail(d, exc)
        ELSE Done([d EXCEPT !.materias = @ \ {materia}], materia_id)

delete_subject(d, usuario_id, materia_id) ==
    LET exc == get_materia_autorizada_exc(d, materia_id, usuario_id)
        materia == Val(GetMateria(d, materia_id))
    IN  IF exc # "" THEN Fail(d, exc)
        ELSE Done([d EXCEPT
                     !.materias = @ \ {materia},
                     !.eventos = {e \in @ : e.evento_materia_id # materia_id}],
                  materia_id)

\* ------------------------------------------------------------------------
\* services/event_service.py
\* ------------------------------------------------------------------------
assert_materia_propia_exc(d, materia_id, usuario_id) ==
    LET materia == GetMateria(d, materia_id) IN
    IF materia = None THEN "MateriaNoEncontrada"
    ELSE IF Val(materia).materia_usuario_id # usuario_id THEN "AccesoNoAutorizado"
    ELSE ""

get_evento_autorizado_exc(d, evento_id, usuario_id) ==
    LET ev == GetEvento(d, evento_id)
        mat == GetMateria(d, Val(ev).evento_materia_id)
    IN  IF ev = None THEN "EventoNoEncontrado"
        ELSE IF mat = None \/ Val(mat).materia_usuario_id # usuario_id
             THEN "AccesoNoAutorizado"
        ELSE ""

create_event(d, usuario_id, payload) ==
    LET exc == assert_materia_propia_exc(d, Val(payload.evento_materia_id), usuario_id)
        ev == [evento_id |-> d.nextEventoId,
               evento_materia_id |-> Val(payload.evento_materia_id),
               evento_nombre |-> Val(payload.evento_nombre),
               evento_descripcion |-> payload.evento_descripcion,
               evento_fecha |-> Val(fromisoformat(Val(payload.evento_fecha))),
               evento_estado |-> IF payload.evento_estado = None THEN "pendiente"
                                 ELSE Val(payload.evento_estado)]
    IN  IF exc # "" THEN Fail(d, exc)
        ELSE Done([d EXCEPT !.eventos = @ \cup {ev}, !.nextEventoId = @ + 1], ev)

update_event(d, usuario_id, evento_id, payload) ==
    LET exc == get_evento_autorizado_exc(d, evento_id, usuario_id)
        ev == Val(GetEvento(d, evento_id))
        e1 == [ev EXCEPT
                 !.evento_nombre =
                     IF payload.evento_nombre # None
                     THEN Val(payload.evento_nombre) ELSE @,
                 !.evento_descripcion =
                     IF payload.evento_descripcion # None
                     THEN payload.evento_descripcion ELSE @,
                 !.evento_fecha =
                     IF payload.evento_fecha # None
                     THEN Val(fromisoformat(Val(payload.evento_fecha))) ELSE @,
                 !.evento_estado =
                     IF payload.evento_estado # None
                     THEN Val(payload.evento_estado) ELSE @]
    IN  IF exc # "" THEN Fail(d, exc)
        ELSE Done([d EXCEPT !.eventos = (@ \ {ev}) \cup {e1}], e1)

delete_event(d, usuario_id, evento_id) ==
    LET exc == get_evento_autorizado_exc(d, evento_id, usuario_id)
        ev == Val(GetEvento(d, evento_id))
    IN  IF exc # "" THEN Fail(d, exc)
        ELSE Done([d EXCEPT !.eventos = @ \ {ev}], evento_id)

\* ------------------------------------------------------------------------
\* services/nl_service.py: reference resolution and ownership guard
\* ------------------------------------------------------------------------
\* lower-casing of the characters of the model
LowerChar(c) == CASE c = "X" -> "x" [] c = "A" -> "a" [] OTHER -> c

\* SQL ILIKE: % matches any run of characters, _ any one character, every
\* other character matches itself ignoring case
RECURSIVE ILike(_, _)
ILike(s, pat) ==
    IF pat = <<>> THEN s = <<>>
    ELSE IF Head(pat) = "%"
         THEN ILike(s, Tail(pat)) \/ (s # <<>> /\ ILike(Tail(s), pat))
    ELSE /\ s # <<>>
         /\ Head(pat) = "_" \/ LowerChar(Head(pat)) = LowerChar(Head(s))
         /\ ILike(Tail(s), Tail(pat))

get_materia_by_name(d, usuario_id, nombre) ==
    scalar_one_or_none(MateriasByName(d, usuario_id, Strip(nombre)))

\* variant of EventosByReferences that does not narrow to the subject found
EventosByReferencesAnySubject(d, usuario_id, evento_ref, materia) ==
    {e \in d.eventos :
        /\ \E m \in d.materias :
              /\ m.materia_id = e.evento_materia_id
              /\ m.materia_usuario_id = usuario_id
        /\ TruthyStr(evento_ref) =>
              ILike(e.evento_nombre, <<"%">> \o Strip(Val(evento_ref)) \o <<"%">>)}

\* events of the user's subjects, narrowed by the references given
EventosByReferences(d, usuario_id, evento_ref, materia) ==
    {e \in d.eventos :
        /\ \E m \in d.materias :
              /\ m.materia_id = e.evento_materia_id
              /\ m.materia_usuario_id = usuario_id
        /\ materia # None => e.evento_materia_id = Val(materia).materia_id
        /\ TruthyStr(evento_ref) =>
              ILike(e.evento_nombre, <<"%">> \o Strip(Val(evento_ref)) \o <<"%">>)}

\* [ok, val]: val the event found (an optional); ok = FALSE when the name
\* lookup raised
find_evento_by_references(d, usuario_id, evento_ref, materia_ref) ==
    LET byName == IF TruthyStr(materia_ref)
                  THEN get_materia_by_name(d, usuario_id, Val(materia_ref))
                  ELSE Return(None)
        eventos == EventosByReferences(d, usuario_id, evento_ref, byName.val)
    IN  IF ~byName.ok THEN byName
        ELSE IF TruthyStr(materia_ref) /\ byName.val = None THEN Return(None)
        ELSE IF Cardinality(eventos) = 1
             THEN Return(Some(CHOOSE e \in eventos : TRUE))
        ELSE IF Cardinality(eventos) > 1 /\ ~TruthyStr(evento_ref)
                /\ TruthyStr(materia_ref)
             THEN LET materia_eventos ==
                          {e \in eventos :
                              e.evento_materia_id = Val(byName.val).materia_id}
                  IN  IF Cardinality(materia_eventos) = 1
                      THEN Return(Some(CHOOSE e \in materia_eventos : TRUE))
                      ELSE Return(None)
        ELSE Return(None)

\* variant of ensure_ownership_materia that accepts a subject of any owner
EnsureOwnershipMateriaAnyOwner(d, usuario_id, materia_id) ==
    GetMateria(d, materia_id) # None

\* the message of the ValueError _ensure_ownership_materia raises, "" when it
\* returns
ensure_ownership_materia_exc(d, usuario_id, materia_id) ==
    LET mat == GetMateria(d, materia_id) IN
    IF mat = None \/ Val(mat).materia_usuario_id # usuario_id
    THEN "Materia no encontrada"
    ELSE ""

\* the message of the ValueError _ensure_ownership_evento raises, "" when it
\* returns
ensure_ownership_evento_exc(d, usuario_id, evento_id) ==
    LET ev == GetEvento(d, evento_id) IN
    IF ev = None THEN "Evento no encontrado"
    ELSE ensure_ownership_materia_exc(d, usuario_id, Val(ev).evento_materia_id)

\* variant of ensure_ownership_evento that never raises
EnsureOwnershipEventoSkipped(d, usuario_id, evento_id) == TRUE

\* TRUE when _ensure_ownership_materia returns, FALSE when it raises ValueError
ensure_ownership_materia(d, usuario_id, materia_id) ==
    LET mat == GetMateria(d, materia_id) IN
    mat # None /\ Val(mat).materia_usuario_id = usuario_id

ensure_ownership_evento(d, usuario_id, evento_id) ==
    LET ev == GetEvento(d, evento_id) IN
    ev # None /\ ensure_ownership_materia(d, usuario_id, Val(ev).evento_materia_id)

\* ------------------------------------------------------------------------
\* PlannedAction
\* ------------------------------------------------------------------------
Desc(verb, nombre, id, fecha) ==
    [verb |-> verb, nombre |-> nombre, id |-> id, fecha |-> fecha]

NoResolved == [materia_id |-> None, evento_id |-> None]

\* the action as the normalizer builds it: allow, resolved and conflict are
\* attributes the checker sets later
PlannedAction(kind, args, description) ==
    [kind |-> kind, args |-> args, description |-> description,
     allow |-> None, resolved |-> NoResolved, conflict |-> None]

\* getattr(a, 'allow', True) taken as a condition
Allowed(a) == a.allow = None \/ Val(a.allow) = TRUE

\* ------------------------------------------------------------------------
\* services/nl_service.py: _normalize_tool_call
\* ------------------------------------------------------------------------
Normalized(out, errors) == [out |-> out, errors |-> errors]

\* materia_ref_to_id: [ok, val] with val the id found (an optional)
materia_ref_to_id(d, usuario_id, mref) ==
    IF mref = None THEN Return(None)
    ELSE LET found == get_materia_by_name(d, usuario_id, Val(mref)) IN
         IF ~found.ok THEN found
         ELSE IF found.val = None THEN Return(None)
         ELSE Return(Some(Val(found.val).materia_id))

\* the id given, else the id the name reference resolves to
MateriaIdOrRef(d, usuario_id, id, mref) ==
    IF id # None THEN Return(id) ELSE materia_ref_to_id(d, usuario_id, mref)

\* the catch-all "except Exception" at the end of _normalize_tool_call
Unexpected == Normalized(<<>>, <<"Error procesando accion">>)

normalize_create_materia(args, d, usuario_id) ==
    IF ~TruthyStr(args.materia_nombre)
    THEN Normalized(<<>>, <<"Crear materia: falta el nombre de la materia">>)
    ELSE Normalized(
           <<PlannedAction("create_materia",
                Merge(Args([materia_usuario_id |-> usuario_id,
                            materia_nombre |-> Strip(Val(args.materia_nombre))]),
                      [Args(<<>>) EXCEPT
                          !.materia_descripcion = args.materia_descripcion]),
                Desc("Crear materia", args.materia_nombre, None, None))>>,
           <<>>)

\* update_materia and delete_materia
normalize_materia(name, args, d, usuario_id) ==
    LET verb == IF name = "update_materia" THEN "Actualizar materia"
                ELSE "Eliminar materia"
        update_args ==
            [Args(<<>>) EXCEPT
                !.materia_nombre =
                    IF name = "update_materia" /\ args.materia_nombre # None
                    THEN Some(Strip(Val(args.materia_nombre))) ELSE None,
                !.materia_descripcion =
                    IF name = "update_materia" THEN args.materia_descripcion
                    ELSE None]
        \* mid is materia_id, or what materia_ref_to_id found
        Build(mid) ==
            IF ~mid.ok THEN Unexpected
            ELSE IF ~TruthyInt(mid.val)
                 THEN Normalized(<<>>, <<verb \o ": no se pudo identificar la materia">>)
            ELSE IF ~ensure_ownership_materia(d, usuario_id, Val(mid.val))
                 THEN Normalized(<<>>, <<verb \o ": Materia no encontrada">>)
            ELSE Normalized(
                   <<PlannedAction(name,
                        Merge(Args([materia_id |-> Val(mid.val)]), update_args),
                        Desc(verb, None, mid.val, None))>>,
                   <<>>)
    IN  Build(MateriaIdOrRef(d, usuario_id, args.materia_id, args.materia_ref))

normalize_create_evento(args, d, usuario_id) ==
    LET evento_estado == IF args.evento_estado = None THEN Some("pendiente")
                         ELSE args.evento_estado
        \* mid is evento_materia_id, or what materia_ref_to_id found
        Build(mid) ==
            IF ~mid.ok THEN Unexpected
            ELSE IF ~TruthyInt(mid.val) \/ ~TruthyStr(args.evento_nombre)
                    \/ ~TruthyStrName(args.evento_fecha)
                 THEN Normalized(<<>>, <<"Crear evento: faltan datos">>)
            ELSE IF ~ensure_ownership_materia(d, usuario_id, Val(mid.val))
                 THEN Normalized(<<>>, <<"Crear evento: Materia no encontrada">>)
            ELSE Normalized(
                   <<PlannedAction("create_evento",
                        [Args(<<>>) EXCEPT
                            !.evento_materia_id = mid.val,
                            !.evento_nombre = Some(Strip(Val(args.evento_nombre))),
                            !.evento_fecha = args.evento_fecha,
                            !.evento_estado = evento_estado],
                        Desc("Crear evento", args.evento_nombre, mid.val,
                             args.evento_fecha))>>,
                   <<>>)
    IN  Build(MateriaIdOrRef(d, usuario_id, args.evento_materia_id,
                             args.materia_ref))

\* variant of normalize_evento that asks for an id or a reference whenever
\* no event was identified, also after a lookup that found nothing
NormalizeEventoAsksAgain(name, args, d, usuario_id) ==
    LET verb == IF name = "update_evento" THEN "Actualizar evento"
                ELSE "Eliminar evento"
        byRef == ~TruthyInt(args.evento_id)
                 /\ (TruthyStr(args.evento_ref) \/ TruthyStr(args.materia_ref))
        \* errors of the lookup by references
        LookupErrors(evento) ==
            IF ~byRef THEN <<>>
            ELSE IF ~evento.ok
                 THEN <<verb \o ": error buscando por referencias">>
            ELSE IF evento.val = None
                 THEN <<verb \o ": no se encontro evento con referencias">>
            ELSE <<>>
        EventoId(evento) ==
            IF TruthyInt(args.evento_id) THEN args.evento_id
            ELSE IF byRef /\ evento.ok /\ evento.val # None
                 THEN Some(Val(evento.val).evento_id)
            ELSE None
        update_args ==
            IF name = "update_evento"
            THEN [Args(<<>>) EXCEPT !.evento_nombre = args.evento_nombre,
                                    !.evento_fecha = args.evento_fecha,
                                    !.evento_estado = args.evento_estado]
            ELSE Args(<<>>)
        Build(e1, evento_id) ==
            IF evento_id = None
            THEN Normalized(<<>>,
                   e1 \o <<verb \o ": proporciona evento_id, evento_ref, o materia_ref">>)
            ELSE IF ~ensure_ownership_evento(d, usuario_id, Val(evento_id))
                 THEN Normalized(<<>>,
                        e1 \o <<verb \o IF GetEvento(d, Val(evento_id)) = None
                                        THEN ": Evento no encontrado"
                                        ELSE ": Materia no encontrada">>)
            ELSE Normalized(
                   <<PlannedAction(name,
                        Merge(Args([evento_id |-> Val(evento_id)]), update_args),
                        Desc(verb, None, evento_id, None))>>,
                   e1)
        \* evento is what _find_evento_by_references found
        Found(evento) == Build(LookupErrors(evento), EventoId(evento))
    IN  Found(IF byRef
              THEN find_evento_by_references(d, usuario_id, args.evento_ref,
                                             args.materia_ref)
              ELSE Return(None))

\* update_evento and delete_evento
normalize_evento(name, args, d, usuario_id) ==
    LET verb == IF name = "update_evento" THEN "Actualizar evento"
                ELSE "Eliminar evento"
        byRef == ~TruthyInt(args.evento_id)
                 /\ (TruthyStr(args.evento_ref) \/ TruthyStr(args.materia_ref))
        \* errors of the lookup by references
        LookupErrors(evento) ==
            IF ~byRef THEN <<>>
            ELSE IF ~evento.ok
                 THEN <<verb \o ": error buscando por referencias">>
            ELSE IF evento.val = None
                 THEN <<verb \o ": no se encontro evento con referencias">>
            ELSE <<>>
        EventoId(evento) ==
            IF TruthyInt(args.evento_id) THEN args.evento_id
            ELSE IF byRef /\ evento.ok /\ evento.val # None
                 THEN Some(Val(evento.val).evento_id)
            ELSE None
        update_args ==
            IF name = "update_evento"
            THEN [Args(<<>>) EXCEPT !.evento_nombre = args.evento_nombre,
                                    !.evento_fecha = args.evento_fecha,
                                    !.evento_estado = args.evento_estado]
            ELSE Args(<<>>)
        Build(e1, evento_id) ==
            IF evento_id = None
            THEN IF ~TruthyStr(args.evento_ref) /\ ~TruthyStr(args.materia_ref)
                 THEN Normalized(<<>>,
                        e1 \o <<verb \o ": proporciona evento_id, evento_ref, o materia_ref">>)
                 ELSE Normalized(<<>>, e1)
            ELSE IF ~ensure_ownership_evento(d, usuario_id, Val(evento_id))
                 THEN Normalized(<<>>,
                        e1 \o <<verb \o IF GetEvento(d, Val(evento_id)) = None
                                        THEN ": Evento no encontrado"
                                        ELSE ": Materia no encontrada">>)
            ELSE Normalized(
                   <<PlannedAction(name,
                        Merge(Args([evento_id |-> Val(evento_id)]), update_args),
                        Desc(verb, None, evento_id, None))>>,
                   e1)
        \* evento is what _find_evento_by_references found
        Found(evento) == Build(LookupErrors(evento), EventoId(evento))
    IN  Found(IF byRef
              THEN find_evento_by_references(d, usuario_id, args.evento_ref,
                                             args.materia_ref)
              ELSE Return(None))

\* variant of normalize_tool_call that ignores a call it does not know
NormalizeToolCallIgnoreUnknown(raw, d, usuario_id) ==
    LET name == raw.name
        args == raw.args
    IN  IF name = Some("create_materia")
        THEN normalize_create_materia(args, d, usuario_id)
        ELSE IF name \in {Some("update_materia"), Some("delete_materia")}
        THEN normalize_materia(Val(name), args, d, usuario_id)
        ELSE IF name = Some("create_evento")
        THEN normalize_create_evento(args, d, usuario_id)
        ELSE IF name \in {Some("update_evento"), Some("delete_evento")}
        THEN normalize_evento(Val(name), args, d, usuario_id)
        ELSE Normalized(<<>>, <<>>)

normalize_tool_call(raw, d, usuario_id) ==
    LET name == raw.name
        args == raw.args
    IN  IF name = Some("create_materia")
        THEN normalize_create_materia(args, d, usuario_id)
        ELSE IF name \in {Some("update_materia"), Some("delete_materia")}
        THEN normalize_materia(Val(name), args, d, usuario_id)
        ELSE IF name = Some("create_evento")
        THEN normalize_create_evento(args, d, usuario_id)
        ELSE IF name \in {Some("update_evento"), Some("delete_evento")}
        THEN normalize_evento(Val(name), args, d, usuario_id)
        ELSE IF TruthyStrName(name)
        THEN Normalized(<<>>, <<"Accion desconocida">>)
        ELSE Normalized(<<>>, <<"Tool call sin nombre valido">>)

\* ------------------------------------------------------------------------
\* services/nl_service.py: plan_actions
\* ------------------------------------------------------------------------
\* variant of NormalizeAll that gives up at the first call that fails
RECURSIVE NormalizeAllStopAtError(_, _, _)
NormalizeAllStopAtError(calls, d, usuario_id) ==
    IF calls = <<>> THEN Normalized(<<>>, <<>>)
    ELSE LET n == normalize_tool_call(Head(calls), d, usuario_id)
             rest == NormalizeAllStopAtError(Tail(calls), d, usuario_id)
         IN  IF n.errors # <<>> THEN n
             ELSE Normalized(n.out \o rest.out, n.errors \o rest.errors)

\* variant of NormalizeAll that collects the actions in reverse call order
RECURSIVE NormalizeAllReversed(_, _, _)
NormalizeAllReversed(calls, d, usuario_id) ==
    IF calls = <<>> THEN Normalized(<<>>, <<>>)
    ELSE LET n == normalize_tool_call(Head(calls), d, usuario_id)
             rest == NormalizeAllReversed(Tail(calls), d, usuario_id)
         IN  Normalized(rest.out \o n.out, rest.errors \o n.errors)

\* the normalization loop: actions and errors of every call, in call order
RECURSIVE NormalizeAll(_, _, _)
NormalizeAll(calls, d, usuario_id) ==
    IF calls = <<>> THEN Normalized(<<>>, <<>>)
    ELSE LET Join(n, rest) ==
                 Normalized(n.out \o rest.out, n.errors \o rest.errors)
         IN  Join(normalize_tool_call(Head(calls), d, usuario_id),
                  NormalizeAll(Tail(calls), d, usuario_id))

\* the inner helper _find_evento_by_natural_key: [ok, val]
find_evento_by_natural_key(d, mid, nombre, fecha_val) ==
    LET fecha == fromisoformat(fecha_val) IN
    IF fecha = None THEN Return(None)
    ELSE scalar_one_or_none(
           {e \in d.eventos :
               /\ e.evento_materia_id = mid
               /\ e.evento_nombre = Strip(nombre)
               /\ e.evento_fecha = Val(fecha)})

\* one checked action: the action annotated, and its line of the summary
Checked(a, allow, resolved, conflict) ==
    [ok |-> TRUE,
     action |-> [a EXCEPT !.allow = Some(allow), !.resolved = resolved,
                          !.conflict = conflict]]

check_create_materia(a, d, usuario_id) ==
    LET nombre == IF a.args.materia_nombre = None THEN <<>>
                  ELSE Val(a.args.materia_nombre)
        m == IF nombre # <<>> THEN get_materia_by_name(d, usuario_id, nombre)
             ELSE Return(None)
    IN  IF ~m.ok THEN m
        ELSE IF m.val # None
             THEN Checked(a, FALSE,
                    [NoResolved EXCEPT !.materia_id = Some(Val(m.val).materia_id)],
                    Some("Materia ya existe; solo se permite update/delete."))
        ELSE Checked(a, TRUE, NoResolved, None)

check_materia(a, d, usuario_id) ==
    LET byName == IF ~TruthyInt(a.args.materia_id) /\ a.args.materia_nombre # None
                  THEN materia_ref_to_id(d, usuario_id, a.args.materia_nombre)
                  ELSE Return(a.args.materia_id)
        mid == byName.val
    IN  IF ~byName.ok THEN byName
        ELSE IF ~TruthyInt(mid) \/ GetMateria(d, Val(mid)) = None
             THEN Checked(a, FALSE, [NoResolved EXCEPT !.materia_id = mid],
                    Some("Materia no existe; no se permite update/delete."))
        ELSE Checked(a, TRUE, [NoResolved EXCEPT !.materia_id = mid], None)

\* variant of check_create_evento that allows every create
CheckCreateEventoAlwaysAllow(a, d, usuario_id) ==
    Checked(a, TRUE, [NoResolved EXCEPT !.materia_id = a.args.evento_materia_id],
            None)

check_create_evento(a, d, usuario_id) ==
    LET mid == a.args.evento_materia_id
        nombre == IF a.args.evento_nombre = None THEN <<>>
                  ELSE Val(a.args.evento_nombre)
        m_ok == TruthyInt(mid) /\ GetMateria(d, Val(mid)) # None
        ev == IF a.args.evento_fecha = None THEN Return(None)
              ELSE find_evento_by_natural_key(d, Val(mid), nombre,
                                              Val(a.args.evento_fecha))
    IN  IF ~m_ok
        THEN Checked(a, FALSE, [NoResolved EXCEPT !.materia_id = mid],
               Some("Materia no existe; no se puede crear el evento."))
        ELSE IF ~ev.ok THEN ev
        ELSE IF ev.val # None
             THEN Checked(a, FALSE,
                    [materia_id |-> mid, evento_id |-> Some(Val(ev.val).evento_id)],
                    Some("Evento ya existe; solo se permite update/delete."))
        ELSE Checked(a, TRUE, [NoResolved EXCEPT !.materia_id = mid], None)

check_evento(a, d, usuario_id) ==
    LET evid == a.args.evento_id
        ev == IF TruthyInt(evid) THEN GetEvento(d, Val(evid)) ELSE None
    IN  IF ev = None
        THEN Checked(a, FALSE, [NoResolved EXCEPT !.evento_id = evid],
               Some("Evento no existe; no se permite update/delete."))
        ELSE Checked(a, TRUE,
               [materia_id |-> Some(Val(ev).evento_materia_id), evento_id |-> evid],
               None)

\* the body of the checker loop for one action
check_action(a, d, usuario_id) ==
    IF a.kind = "create_materia" THEN check_create_materia(a, d, usuario_id)
    ELSE IF a.kind \in {"update_materia", "delete_materia"}
    THEN check_materia(a, d, usuario_id)
    ELSE IF a.kind = "create_evento" THEN check_create_evento(a, d, usuario_id)
    ELSE IF a.kind \in {"update_evento", "delete_evento"}
    THEN check_evento(a, d, usuario_id)
    ELSE Checked(a, FALSE, NoResolved, Some("Accion desconocida."))

\* the checker loop: [ok, actions], ok = FALSE when a lookup raised
RECURSIVE CheckAll(_, _, _)
CheckAll(actions, d, usuario_id) ==
    IF actions = <<>> THEN [ok |-> TRUE, actions |-> <<>>]
    ELSE LET Join(c, rest) ==
                 IF ~c.ok THEN c
                 ELSE IF ~rest.ok THEN rest
                 ELSE [ok |-> TRUE, actions |-> <<c.action>> \o rest.actions]
         IN  Join(check_action(Head(actions), d, usuario_id),
                  CheckAll(Tail(actions), d, usuario_id))

SelectSeqAllowed(actions) == SelectSeq(actions, Allowed)

\* the closing RESUMEN line of the summary, None for a single instruction
Resumen(total_requested, total_valid, total_errors) ==
    IF total_requested <= 1 THEN None
    ELSE IF total_errors > 0 /\ total_valid > 0
         THEN Some(<<"ejecutables y errores", total_requested, total_valid,
                     total_errors>>)
    ELSE IF total_errors > 0
         THEN Some(<<"ninguna interpretada", total_requested>>)
    ELSE IF total_valid = total_requested
         THEN Some(<<"todas", total_requested>>)
    ELSE Some(<<"ejecutables", total_requested, total_valid>>)

\* the summary text: the error lines, one line per action, the RESUMEN line
Summary(errors, actions, total_requested) ==
    [text |-> "plan", errors |-> errors,
     lines |-> [i \in 1..Len(actions) |->
                  [allow |-> Val(actions[i].allow), kind |-> actions[i].kind]],
     resumen |-> Resumen(total_requested, Len(SelectSeqAllowed(actions)),
                         Len(errors))]

NoActionsSummary ==
    [text |-> "No se detectaron acciones validas. Podes reformular.",
     errors |-> <<>>, lines |-> <<>>, resumen |-> None]

PlanRaised(e) == [raised |-> TRUE, exc |-> e, actions |-> <<>>,
                  summary |-> NoActionsSummary]
PlanResult(actions, summary) ==
    [raised |-> FALSE, exc |-> "", actions |-> actions, summary |-> summary]

\* tool_calls is what llm.get_tool_calls returned
plan_actions(d, usuario_id, tool_calls) ==
    LET \* n: the actions and errors of the normalization loop;
        \* checked: what the checker loop made of the actions
        Finish(n, checked) ==
            IF n.out = <<>> /\ n.errors = <<>>
            THEN PlanResult(<<>>, NoActionsSummary)
            ELSE IF ~checked.ok THEN PlanRaised(checked.exc)
            ELSE PlanResult(checked.actions,
                            Summary(n.errors, checked.actions, Len(tool_calls)))
        Check(n) == Finish(n, CheckAll(n.out, d, usuario_id))
    IN  Check(NormalizeAll(tool_calls, d, usuario_id))

\* ------------------------------------------------------------------------
\* services/nl_service.py: execute_actions
\* ------------------------------------------------------------------------
\* one per-action result; the keys a Python result dict lacks are None here
Result(kind, status) ==
    [kind |-> kind, status |-> status, materia |-> None, evento |-> None,
     deleted_materia_id |-> None, deleted_evento_id |-> None,
     reason |-> None, error |-> None, description |-> None]

ResultError(a, exc) ==
    [Result(a.kind, "error") EXCEPT !.error = Some(StrExc(exc)),
                                    !.description = Some(a.description)]

\* getattr(a, 'conflict', 'no permitida'): None stands for a missing attribute
ResultSkipped(a) ==
    [Result(a.kind, "skipped") EXCEPT
        !.reason = IF a.conflict = None THEN Some("no permitida") ELSE a.conflict,
        !.description = Some(a.description)]

\* one pass of the loop body: the store after it and the result appended
Step(d, result) == [db |-> d, result |-> result]

\* the dispatch on a.kind, for an action that is allowed
dispatch(d, usuario_id, a) ==
    LET args == a.args
        \* r is what the service call returned or raised
        Failed(r) == Step(d, ResultError(a, r.exc))
        Materia(r) ==
            IF ~r.ok THEN Failed(r)
            ELSE Step(r.db, [Result(a.kind, "success") EXCEPT !.materia = r.val])
        MateriaDeleted(r) ==
            IF ~r.ok THEN Failed(r)
            ELSE Step(r.db, [Result(a.kind, "success") EXCEPT
                                !.deleted_materia_id = args.materia_id])
        Evento(r) ==
            IF ~r.ok THEN Failed(r)
            ELSE Step(r.db, [Result(a.kind, "success") EXCEPT !.evento = r.val])
        EventoDeleted(r) ==
            IF ~r.ok THEN Failed(r)
            ELSE Step(r.db, [Result(a.kind, "success") EXCEPT
                                !.deleted_evento_id = args.evento_id])
    IN
    IF a.kind = "create_materia"
    THEN IF ~MateriaCreateValid(args) THEN Step(d, ResultError(a, "ValidationError"))
         ELSE Materia(create_subject(d, usuario_id, args))
    ELSE IF a.kind = "update_materia"
    THEN IF args.materia_id = None THEN Step(d, ResultError(a, "KeyError"))
         ELSE IF ~MateriaUpdateValid(args)
              THEN Step(d, ResultError(a, "ValidationError"))
         ELSE Materia(update_subject(d, usuario_id, Val(args.materia_id), args))
    ELSE IF a.kind = "delete_materia"
    THEN IF args.materia_id = None THEN Step(d, ResultError(a, "KeyError"))
         ELSE MateriaDeleted(delete_subject(d, usuario_id, Val(args.materia_id)))
    ELSE IF a.kind = "create_evento"
    THEN IF ~EventoCreateValid(args) THEN Step(d, ResultError(a, "ValidationError"))
         ELSE Evento(create_event(d, usuario_id, args))
    ELSE IF a.kind = "update_evento"
    THEN IF args.evento_id = None THEN Step(d, ResultError(a, "KeyError"))
         ELSE IF ~EventoUpdateValid(args)
              THEN Step(d, ResultError(a, "ValidationError"))
         ELSE Evento(update_event(d, usuario_id, Val(args.evento_id), args))
    ELSE IF a.kind = "delete_evento"
    THEN IF args.evento_id = None THEN Step(d, ResultError(a, "KeyError"))
         ELSE EventoDeleted(delete_event(d, usuario_id, Val(args.evento_id)))
    ELSE Step(d, [Result(a.kind, "error") EXCEPT
                     !.error = Some("Tipo de accion desconocido"),
                     !.description = Some(a.description)])

\* variant of exec_step without the allow check
ExecStepIgnoreAllow(d, usuario_id, a) == dispatch(d, usuario_id, a)

\* the loop body: the allow check, then the dispatch
exec_step(d, usuario_id, a) ==
    IF ~Allowed(a) THEN Step(d, ResultSkipped(a)) ELSE dispatch(d, usuario_id, a)

\* the loop: [db, results], the store after the last action and one result
\* per action
Executed(d, results) == [db |-> d, results |-> results]

\* variant of ExecLoop that stops at the first action that fails
RECURSIVE ExecLoopAbortOnError(_, _, _)
ExecLoopAbortOnError(d, usuario_id, actions) ==
    IF actions = <<>> THEN Executed(d, <<>>)
    ELSE LET s == exec_step(d, usuario_id, Head(actions))
             rest == ExecLoopAbortOnError(s.db, usuario_id, Tail(actions))
         IN  IF s.result.status = "error" THEN Executed(s.db, <<s.result>>)
             ELSE Executed(rest.db, <<s.result>> \o rest.results)

RECURSIVE ExecLoop(_, _, _)
ExecLoop(d, usuario_id, actions) ==
    IF actions = <<>> THEN Executed(d, <<>>)
    ELSE LET Join(s, rest) == Executed(rest.db, <<s.result>> \o rest.results)
             Continue(s) == Join(s, ExecLoop(s.db, usuario_id, Tail(actions)))
         IN  Continue(exec_step(d, usuario_id, Head(actions)))

CountStatus(results, status) ==
    Cardinality({i \in 1..Len(results) : results[i].status = status})

\* the messages collected in execution_errors, as the positions they name
ExecutionErrors(results) ==
    {i \in 1..Len(results) : results[i].status \in {"error", "skipped"}}

\* variant of ExecutionSummary whose failed count is the length of
\* failed_results, the error and the skipped results together
ExecutionSummaryFailedResults(actions, results) ==
    [kind |-> "execution_summary", status |-> "summary",
     total_actions |-> Len(actions),
     successful |-> CountStatus(results, "success"),
     failed |-> CountStatus(results, "error") + CountStatus(results, "skipped"),
     skipped |-> CountStatus(results, "skipped"),
     errors |-> ExecutionErrors(results)]

ExecutionSummary(actions, results) ==
    [kind |-> "execution_summary", status |-> "summary",
     total_actions |-> Len(actions),
     successful |-> CountStatus(results, "success"),
     failed |-> CountStatus(results, "error"),
     skipped |-> CountStatus(results, "skipped"),
     errors |-> ExecutionErrors(results)]

execute_actions(d, usuario_id, actions) ==
    LET Finish(e) ==
            Executed(e.db,
                     IF Len(actions) > 1
                     THEN e.results \o <<ExecutionSummary(actions, e.results)>>
                     ELSE e.results)
    IN  Finish(ExecLoop(d, usuario_id, actions))

\* ------------------------------------------------------------------------
\* services/nl_service.py: serialize_plan, deserialize_actions
\* ------------------------------------------------------------------------
\* one item of the JSON action list; a key the item lacks is None
Item(kind, args, description, allow, resolved, conflict) ==
    [kind |-> kind, args |-> args, description |-> description,
     allow |-> allow, resolved |-> resolved, conflict |-> conflict]

serialize_action(a) ==
    Item(Some(a.kind), Some(a.args), Some(a.description),
         Some(Allowed(a)), Some(a.resolved), a.conflict)

serialize_plan(plan) ==
    [summary |-> plan.summary,
     actions |-> [i \in 1..Len(plan.actions) |-> serialize_action(plan.actions[i])]]

\* variant of deserialize_action that does not take over the allow of the item
DeserializeActionDropAllow(item) ==
    [kind |-> Val(item.kind), args |-> Val(item.args),
     description |-> IF item.description = None THEN Desc("", None, None, None)
                     ELSE Val(item.description),
     allow |-> None,
     resolved |-> IF item.resolved = None THEN NoResolved ELSE Val(item.resolved),
     conflict |-> item.conflict]

deserialize_action(item) ==
    [kind |-> Val(item.kind), args |-> Val(item.args),
     description |-> IF item.description = None THEN Desc("", None, None, None)
                     ELSE Val(item.description),
     allow |-> item.allow,
     resolved |-> IF item.resolved = None THEN NoResolved ELSE Val(item.resolved),
     conflict |-> item.conflict]

\* variant of deserialize_actions that leaves out the items it cannot read
DeserializeActionsSkipMalformed(items) ==
    LET good == SelectSeq(items, LAMBDA it : it.kind # None /\ it.args # None)
    IN  [ok |-> TRUE,
         actions |-> [i \in 1..Len(good) |-> deserialize_action(good[i])],
         index |-> None]

\* [ok, actions, index]: ok = FALSE is the ValueError, index the item its
\* message names (enumerate counts from 0)
deserialize_actions(items) ==
    LET bad == {i \in 1..Len(items) :
                   items[i].kind = None \/ items[i].args = None}
    IN  IF bad # {}
        THEN [ok |-> FALSE, actions |-> <<>>,
              index |-> Some((CHOOSE i \in bad : \A j \in bad : i <= j) - 1)]
        ELSE [ok |-> TRUE,
              actions |-> [i \in 1..Len(items) |-> deserialize_action(items[i])],
              index |-> None]

\* ------------------------------------------------------------------------
\* routers/v1_nl.py: POST /api/v1/nl/command
\* ------------------------------------------------------------------------
\* the handler's local `plan` when it has not planned
NoPlan == PlanResult(<<>>, NoActionsSummary)

\* the HTTP response, the store the request leaves, the handler's `plan`, and
\* whether the handler called plan_actions
Response(d, status, summary, actions, results) ==
    [db |-> d, status |-> status, summary |-> summary, actions |-> actions,
     results |-> results, plan |-> NoPlan, planned |-> FALSE]

\* mode = "plan"
nl_command_plan(d, usuario_id, tool_calls) ==
    LET Serialize(plan) ==
            [(IF plan.raised
              THEN Response(d, 500, "Error procesando la orden", <<>>, <<>>)
              ELSE Response(d, 200, "plan", serialize_plan(plan).actions, <<>>))
             EXCEPT !.plan = plan, !.planned = TRUE]
    IN  Serialize(plan_actions(d, usuario_id, tool_calls))

\* mode = "execute", after the action list is known: filter, then execute
filter_and_execute(d, usuario_id, actions) ==
    LET Executed_(e) == Response(e.db, 200, "Acciones ejecutadas", <<>>, e.results)
        Filtered(allowed_actions) ==
            IF allowed_actions = <<>>
            THEN Response(d, 200, "No hay acciones validas para ejecutar",
                          <<>>, <<>>)
            ELSE Executed_(execute_actions(d, usuario_id, allowed_actions))
    IN  Filtered(SelectSeqAllowed(actions))

\* mode = "execute": items is payload.actions (an optional list)
nl_command_execute(d, usuario_id, items, tool_calls) ==
    LET \* payload.actions given: a ValueError of deserialize_actions is a 400
        Deserialized(des) ==
            IF ~des.ok THEN Response(d, 400, "Error en accion", <<>>, <<>>)
            ELSE filter_and_execute(d, usuario_id, des.actions)
        \* no payload.actions: an exception of plan_actions is a 500
        Planned_(plan) ==
            [(IF plan.raised
              THEN Response(d, 500, "Error procesando la orden", <<>>, <<>>)
              ELSE filter_and_execute(d, usuario_id, plan.actions))
             EXCEPT !.plan = plan, !.planned = TRUE]
    IN  IF items # None /\ Val(items) # <<>>
        THEN Deserialized(deserialize_actions(Val(items)))
        ELSE Planned_(plan_actions(d, usuario_id, tool_calls))

\* ------------------------------------------------------------------------
\* integrations/gemini_client.py: GeminiClient.get_tool_calls
\* ------------------------------------------------------------------------
\* what model.generate_content and _parse_tool_calls do for one prompt: they
\* raise, or they give the tool calls parsed
LlmRaised == [raised |-> TRUE, tool_calls |-> <<>>]
LlmReturned(tool_calls) == [raised |-> FALSE, tool_calls |-> tool_calls]

\* variant of get_tool_calls that lets the exception of the call through
GetToolCallsPropagate(resp) ==
    IF resp.raised THEN Raise("Exception") ELSE Return(resp.tool_calls)

\* get_tool_calls catches every Exception of the call and returns []
get_tool_calls(resp) ==
    IF resp.raised THEN Return(<<>>) ELSE Return(resp.tool_calls)

\* variant of nl_command that plans and executes whatever the mode
NlCommandIgnoreMode(d, usuario_id, mode, items, resp) ==
    LET Got(g) ==
            IF ~g.ok
            THEN [Response(d, 500, "Error procesando la orden", <<>>, <<>>)
                  EXCEPT !.plan = PlanRaised(g.exc), !.planned = TRUE]
            ELSE nl_command_execute(d, usuario_id, items, g.val)
    IN  IF items # None /\ Val(items) # <<>>
        THEN nl_command_execute(d, usuario_id, items, <<>>)
        ELSE Got(get_tool_calls(resp))

\* nl_command: items is payload.actions, resp what the language model would
\* answer to payload.text. The model is asked only where the handler calls
\* plan_actions, which first asks llm.get_tool_calls, outside any try of its
\* own, so what that call raises reaches the handler's `except Exception`
nl_command(d, usuario_id, mode, items, resp) ==
    LET Got(g) ==
            IF ~g.ok
            THEN [Response(d, 500, "Error procesando la orden", <<>>, <<>>)
                  EXCEPT !.plan = PlanRaised(g.exc), !.planned = TRUE]
            ELSE IF mode = "plan" THEN nl_command_plan(d, usuario_id, g.val)
            ELSE nl_command_execute(d, usuario_id, items, g.val)
    IN  IF mode = "execute" /\ items # None /\ Val(items) # <<>>
        THEN nl_command_execute(d, usuario_id, items, <<>>)
        ELSE Got(get_tool_calls(resp))

\* ------------------------------------------------------------------------
\* The requests the model issues
\* ------------------------------------------------------------------------
ToolCall(name, r) == [name |-> Some(name), args |-> Args(r)]

\* What llm.get_tool_calls may return to usuario 1: the tool calls of one
\* batch come from one of three groups.
SubjectCalls ==
    {ToolCall("create_materia", [materia_nombre |-> <<" ", "a">>]),
     ToolCall("create_materia", [materia_nombre |-> <<" ">>]),
     ToolCall("create_materia", <<>>),
     ToolCall("update_materia", [materia_id |-> 1, materia_nombre |-> <<"b">>]),
     ToolCall("delete_materia", [materia_ref |-> <<"a">>])}

EventCalls ==
    {ToolCall("create_evento", [materia_ref |-> <<"a">>,
                                evento_nombre |-> <<" ", "x">>,
                                evento_fecha |-> "2025-03-01"]),
     ToolCall("create_evento", [evento_materia_id |-> 1, evento_nombre |-> <<"x">>,
                                evento_fecha |-> "2025-03-01"]),
     ToolCall("create_evento", [evento_materia_id |-> 1, evento_nombre |-> <<"x">>,
                                evento_fecha |-> "manana"]),
     ToolCall("update_evento", [evento_id |-> 1, evento_fecha |-> "2025-03-02"]),
     ToolCall("delete_evento", [evento_ref |-> <<"X">>])}

MixedCalls ==
    {ToolCall("create_materia", [materia_nombre |-> <<" ", "a">>]),
     ToolCall("create_evento", [materia_ref |-> <<"a">>,
                                evento_nombre |-> <<" ", "x">>,
                                evento_fecha |-> "2025-03-01"]),
     ToolCall("delete_materia", [materia_id |-> 1]),
     ToolCall("update_evento", [materia_ref |-> <<"a">>,
                                evento_fecha |-> "2025-03-02"]),
     ToolCall("delete_evento", [evento_id |-> 1]),
     ToolCall("borrar_todo", <<>>),
     [name |-> None, args |-> Args(<<>>)]}

ToolCalls == SubjectCalls \cup EventCalls \cup MixedCalls

\* sequences over S of length at most n
RECURSIVE SeqsUpTo(_, _)
SeqsUpTo(S, n) ==
    IF n = 0 THEN {<<>>}
    ELSE LET shorter == SeqsUpTo(S, n - 1) IN
         shorter \cup {Append(q, x) : q \in shorter, x \in S}

\* usuario 2 is the other user: it only creates a subject and an event of
\* its own, one instruction at a time
OtherBatches ==
    {<<ToolCall("create_materia", [materia_nombre |-> <<" ", "a">>])>>,
     <<ToolCall("create_evento", [materia_ref |-> <<"a">>,
                                  evento_nombre |-> <<" ", "x">>,
                                  evento_fecha |-> "2025-03-01"])>>}

Batches(u) ==
    IF u = 1
    THEN UNION {SeqsUpTo(G, MaxBatch) : G \in {SubjectCalls, EventCalls, MixedCalls}}
    ELSE OtherBatches

\* what the language model may answer to a prompt of user u
LlmResponses(u) == {LlmRaised} \cup {LlmReturned(tool_calls) : tool_calls \in Batches(u)}

ReplayItem(kind, r, allow) ==
    Item(Some(kind), Some(Args(r)), None, allow, None,
         IF allow = Some(FALSE) THEN Some("bloqueada") ELSE None)

\* Items of an action list usuario 1 may submit, in three groups again.
SubjectItems ==
    {ReplayItem("create_materia", [materia_usuario_id |-> 2,
                                   materia_nombre |-> <<"a">>], None),
     ReplayItem("create_materia", [materia_usuario_id |-> 1,
                                   materia_nombre |-> <<" ">>], Some(TRUE)),
     ReplayItem("create_materia", [materia_usuario_id |-> 1,
                                   materia_nombre |-> <<"b">>], Some(FALSE)),
     ReplayItem("update_materia", [materia_id |-> 1,
                                   materia_nombre |-> <<"b">>], None),
     ReplayItem("update_materia", [materia_id |-> 1,
                                   materia_nombre |-> <<"b">>], Some(FALSE)),
     ReplayItem("delete_materia", [materia_id |-> 1], Some(TRUE)),
     ReplayItem("delete_materia", [materia_id |-> 1], Some(FALSE))}

EventItems ==
    {ReplayItem("create_evento", [evento_materia_id |-> 1,
                                  evento_nombre |-> <<"x">>,
                                  evento_fecha |-> "2025-03-01"], None),
     ReplayItem("create_evento", [evento_materia_id |-> 1,
                                  evento_nombre |-> <<"x">>,
                                  evento_fecha |-> "2025-03-01"], Some(FALSE)),
     ReplayItem("update_evento", [evento_id |-> 1,
                                  evento_fecha |-> "2025-03-02"], Some(TRUE)),
     ReplayItem("update_evento", [evento_id |-> 1,
                                  evento_fecha |-> "2025-03-02"], Some(FALSE)),
     ReplayItem("delete_evento", [evento_id |-> 1], None),
     ReplayItem("delete_evento", [evento_id |-> 1], Some(FALSE))}

MixedItems ==
    {ReplayItem("create_materia", [materia_usuario_id |-> 1,
                                   materia_nombre |-> <<"a">>], Some(TRUE)),
     ReplayItem("create_evento", [evento_materia_id |-> 2,
                                  evento_nombre |-> <<"x">>,
                                  evento_fecha |-> "2025-03-01"], None),
     ReplayItem("update_materia", [materia_id |-> 2,
                                   materia_nombre |-> <<" ", "a">>], None),
     ReplayItem("delete_materia", [materia_id |-> 1], Some(TRUE)),
     ReplayItem("vaciar", <<>>, None),
     Item(None, Some(Args(<<>>)), None, None, None, None),
     Item(Some("delete_materia"), None, None, None, None, None)}

ReplayItems == SubjectItems \cup EventItems \cup MixedItems

ItemLists(u) ==
    IF u = 1
    THEN UNION {SeqsUpTo(G, MaxBatch) : G \in {SubjectItems, EventItems, MixedItems}}
         \ {<<>>}
    ELSE {}

\* the lists of actions execute_actions is called with: the well-formed item
\* lists for usuario 1; usuario 2 again only creates
OtherActionLists ==
    {<<deserialize_action(
          ReplayItem("create_materia", [materia_usuario_id |-> 2,
                                        materia_nombre |-> <<"a">>], None))>>}
    \cup {<<deserialize_action(
               ReplayItem("create_evento", [evento_materia_id |-> i,
                                            evento_nombre |-> <<"x">>,
                                            evento_fecha |-> "2025-03-01"], None))>> :
             i \in {1, 2}}

ActionLists(u) ==
    IF u = 1
    THEN {deserialize_actions(items).actions :
             items \in {l \in ItemLists(1) \cup {<<>>} : deserialize_actions(l).ok}}
    ELSE OtherActionLists

\* the answers of the language model tried with a request that carries the
\* list items: every answer with the empty list, one answer otherwise
LlmAnswersFor(u, items) ==
    IF items = <<>> THEN LlmResponses(u)
    ELSE {LlmReturned(<<ToolCall("create_materia", [materia_nombre |-> <<"b">>])>>)}

\* ------------------------------------------------------------------------
\* State machine
\* ------------------------------------------------------------------------
NoRequest ==
    [op |-> "none", usuario_id |-> 0, planned |-> FALSE, llm_raised |-> FALSE,
     tool_calls |-> <<>>, items |-> None,
     echoed |-> FALSE, actions |-> <<>>, pre |-> EmptyDb, plan |-> NoPlan,
     status |-> 0, summary |-> "", response_actions |-> <<>>, results |-> <<>>]

\* the sequences stay within the bounds of the model
WithinBounds(d) ==
    d.nextMateriaId <= MaxMateriaId + 1 /\ d.nextEventoId <= MaxEventoId + 1

Init == db = EmptyDb /\ pc = "idle" /\ last = NoRequest

\* POST /command, mode "plan": the language model answered resp
NlCommandPlan(u, resp) ==
    LET Answer(r) ==
            /\ db' = r.db
            /\ last' = [NoRequest EXCEPT
                          !.op = "plan", !.usuario_id = u, !.planned = r.planned,
                          !.llm_raised = resp.raised,
                          !.tool_calls = resp.tool_calls, !.pre = db, !.plan = r.plan,
                          !.status = r.status, !.summary = r.summary,
                          !.response_actions = r.actions]
    IN  /\ pc = "idle"
        /\ Answer(nl_command(db, u, "plan", None, resp))
        /\ pc' = "planned"

\* POST /command, mode "execute", no action list: plan and execute
NlCommandExecute(u, resp) ==
    LET Answer(r) ==
            /\ WithinBounds(r.db)
            /\ db' = r.db
            /\ last' = [NoRequest EXCEPT
                          !.op = "execute", !.usuario_id = u, !.planned = r.planned,
                          !.llm_raised = resp.raised,
                          !.tool_calls = resp.tool_calls, !.pre = db, !.plan = r.plan,
                          !.status = r.status, !.summary = r.summary,
                          !.results = r.results]
    IN  /\ pc = "idle"
        /\ Answer(nl_command(db, u, "execute", None, resp))
        /\ pc' = "executed"

\* POST /command, mode "execute", with an action list of the client's making
\* (possibly the empty list), the language model being ready to answer resp
NlCommandReplay(u, items, resp) ==
    LET Answer(r) ==
            /\ WithinBounds(r.db)
            /\ db' = r.db
            /\ last' = [NoRequest EXCEPT
                          !.op = "replay", !.usuario_id = u,
                          !.planned = r.planned,
                          !.llm_raised = r.planned /\ resp.raised,
                          !.tool_calls = IF r.planned THEN resp.tool_calls ELSE <<>>,
                          !.items = Some(items), !.pre = db, !.plan = r.plan,
                          !.status = r.status, !.summary = r.summary,
                          !.results = r.results]
    IN  /\ pc = "idle"
        /\ Answer(nl_command(db, u, "execute", Some(items), resp))
        /\ pc' = "executed"

\* POST /command, mode "execute": the client sends back the actions of the
\* plan it has just received
NlCommandReplayPlan ==
    LET Answer(r) ==
            /\ WithinBounds(r.db)
            /\ db' = r.db
            /\ last' = [last EXCEPT
                          !.op = "replay", !.items = Some(last.response_actions),
                          !.echoed = TRUE, !.planned = r.planned,
                          !.pre = db, !.status = r.status,
                          !.summary = r.summary, !.response_actions = <<>>,
                          !.results = r.results]
    IN  /\ pc = "planned"
        /\ last.status = 200
        /\ Answer(nl_command_execute(db, last.usuario_id,
                                     Some(last.response_actions), last.tool_calls))
        /\ pc' = "executed"

\* a direct call of nl_service.execute_actions
ExecuteActions(u, actions) ==
    LET Answer(e) ==
            /\ WithinBounds(e.db)
            /\ db' = e.db
            /\ last' = [NoRequest EXCEPT
                          !.op = "execute_actions", !.usuario_id = u,
                          !.actions = actions, !.pre = db, !.status = 200,
                          !.results = e.results]
    IN  /\ pc = "idle"
        /\ Answer(execute_actions(db, u, actions))
        /\ pc' = "executed"

\* the response is delivered; the plan and the results are discarded
Respond ==
    /\ pc # "idle"
    /\ pc' = "idle"
    /\ last' = NoRequest
    /\ UNCHANGED db

\* the command endpoint
Next ==
    \/ \E u \in Usuarios : \E resp \in LlmResponses(u) : NlCommandPlan(u, resp)
    \/ \E u \in Usuarios : \E resp \in LlmResponses(u) : NlCommandExecute(u, resp)
    \/ \E u \in Usuarios : \E items \in ItemLists(u) \cup {<<>>} :
          \E resp \in LlmAnswersFor(u, items) : NlCommandReplay(u, items, resp)
    \/ NlCommandReplayPlan
    \/ Respond

Spec == Init /\ [][Next]_vars

\* execute_actions called directly, on any list of actions
NextExec ==
    \/ \E u \in Usuarios : \E actions \in ActionLists(u) : ExecuteActions(u, actions)
    \/ Respond

ExecSpec == Init /\ [][NextExec]_vars

\* ------------------------------------------------------------------------
\* Overlapping requests: create_subject running in several sessions. Each
\* request has its own Session; its duplicate query reads the committed
\* rows, and its insert is committed at db.commit().
\* ------------------------------------------------------------------------
Requests == 1..MaxRequests

\* the MateriaCreate payloads of the requests
SubjectPayloads ==
    {[materia_nombre |-> Some(nombre), materia_descripcion |-> None] :
        nombre \in {<<"a">>, <<" ", "a">>, <<"b">>}}

NoCall ==
    [usuario_id |-> 0, payload |-> None, passed |-> FALSE, exc |-> "",
     materia |-> None]

RaceInit ==
    /\ db = EmptyDb
    /\ pc = [r \in Requests |-> "idle"]
    /\ last = [r \in Requests |-> NoCall]

\* request r enters create_subject and runs the duplicate query
CreateSubjectCheck(r, u, payload) ==
    LET Checked_(exc) ==
            /\ pc' = [pc EXCEPT ![r] = IF exc = "" THEN "checked" ELSE "done"]
            /\ last' = [last EXCEPT ![r] =
                           [usuario_id |-> u, payload |-> Some(payload),
                            passed |-> exc = "", exc |-> exc, materia |-> None]]
    IN  /\ pc[r] = "idle"
        /\ Checked_(create_subject_check(db, u, payload))
        /\ UNCHANGED db

\* request r, past the duplicate query, adds its row and commits
CreateSubjectInsert(r) ==
    LET Inserted(res) ==
            /\ WithinBounds(res.db)
            /\ db' = res.db
            /\ last' = [last EXCEPT ![r].exc = res.exc, ![r].materia = res.val]
    IN  /\ pc[r] = "checked"
        /\ Inserted(create_subject_insert(db, last[r].usuario_id,
                                          Val(last[r].payload)))
        /\ pc' = [pc EXCEPT ![r] = "done"]

\* request r is answered
RaceRespond(r) ==
    /\ pc[r] = "done"
    /\ pc' = [pc EXCEPT ![r] = "idle"]
    /\ last' = [last EXCEPT ![r] = NoCall]
    /\ UNCHANGED db

NextRace ==
    \/ \E r \in Requests, u \in Usuarios, payload \in SubjectPayloads :
          CreateSubjectCheck(r, u, payload)
    \/ \E r \in Requests : CreateSubjectInsert(r)
    \/ \E r \in Requests : RaceRespond(r)

RaceSpec == RaceInit /\ [][NextRace]_vars

\* ------------------------------------------------------------------------
\* Vocabulary of the properties
\* ------------------------------------------------------------------------
\* the owner of subject id in store d, 0 when there is no such subject
OwnerOfMateria(d, id) ==
    IF GetMateria(d, id) = None THEN 0
    ELSE Val(GetMateria(d, id)).materia_usuario_id

\* the owner of event id in store d through its subject, 0 when there is none
OwnerOfEvento(d, id) ==
    IF GetEvento(d, id) = None THEN 0
    ELSE OwnerOfMateria(d, Val(GetEvento(d, id)).evento_materia_id)

Foreign(owner, u) == owner # 0 /\ owner # u

\* the request of `last` was handled for usuario u on store last.pre
Handled == last.op # "none"

\* action a names, by id, a resource that store d holds for a user other than u
ActionTargetsForeign(a, d, u) ==
    \/ /\ a.kind \in {"update_materia", "delete_materia"}
       /\ a.args.materia_id # None
       /\ Foreign(OwnerOfMateria(d, Val(a.args.materia_id)), u)
    \/ /\ a.kind = "create_evento"
       /\ a.args.evento_materia_id # None
       /\ Foreign(OwnerOfMateria(d, Val(a.args.evento_materia_id)), u)
    \/ /\ a.kind \in {"update_evento", "delete_evento"}
       /\ a.args.evento_id # None
       /\ Foreign(OwnerOfEvento(d, Val(a.args.evento_id)), u)

\* the actions a replay request hands to execute_actions
ReplayedActions ==
    IF last.op = "replay" /\ last.status = 200
    THEN SelectSeqAllowed(deserialize_actions(Val(last.items)).actions)
    ELSE <<>>

\* the per-action results, without the trailing execution summary
PerAction(results) == SelectSeq(results, LAMBDA r : r.kind # "execution_summary")

\* ------------------------------------------------------------------------
\* C1  Ownership isolation.  Whatever request usuario u issues (plan, execute
\* from text, or execute of a client-made action list with any ids, any
\* materia_usuario_id and allow true or omitted): every subject and event that
\* belonged to another user before the request is still there unchanged,
\* every subject and event the request added belongs to u, and a replayed
\* action that names another user's resource has an error result.
\* ------------------------------------------------------------------------
C1_OwnershipIsolation ==
    Handled =>
      LET u == last.usuario_id
          pre == last.pre
      IN  /\ \A m \in pre.materias : m.materia_usuario_id # u => m \in db.materias
          /\ \A e \in pre.eventos :
                Foreign(OwnerOfMateria(pre, e.evento_materia_id), u)
                   => e \in db.eventos
          /\ \A m \in db.materias \ pre.materias :
                m.materia_usuario_id = u
          /\ \A e \in db.eventos \ pre.eventos :
                OwnerOfMateria(db, e.evento_materia_id) = u
          /\ \A k \in 1..Len(ReplayedActions) :
                ActionTargetsForeign(ReplayedActions[k], pre, u)
                   => PerAction(last.results)[k].status = "error"

\* a replayed list named another user's subject or event and got an error
\* for it, the other user's rows being still in the store
C1_Witness ==
    /\ last.op = "replay"
    /\ \E k \in 1..Len(ReplayedActions) :
          /\ ActionTargetsForeign(ReplayedActions[k], last.pre, last.usuario_id)
          /\ PerAction(last.results)[k].status = "error"
    /\ \E m \in db.materias : m.materia_usuario_id # last.usuario_id

\* ------------------------------------------------------------------------
\* C2  Every action of a plan returned for usuario u that targets an existing
\* resource targets a resource of u, and a tool call that names, by id, a
\* resource of another user yields an error string and no action: the plan
\* has at most one action per other call and at least one error per such call.
\* (A name reference is looked up among u's own subjects only.)
\* ------------------------------------------------------------------------
Planned == last.op \in {"plan", "execute"} /\ ~last.plan.raised

CallTargetsForeign(call, d, u) ==
    \/ /\ call.name \in {Some("update_materia"), Some("delete_materia")}
       /\ call.args.materia_id # None
       /\ Foreign(OwnerOfMateria(d, Val(call.args.materia_id)), u)
    \/ /\ call.name = Some("create_evento")
       /\ call.args.evento_materia_id # None
       /\ Foreign(OwnerOfMateria(d, Val(call.args.evento_materia_id)), u)
    \/ /\ call.name \in {Some("update_evento"), Some("delete_evento")}
       /\ TruthyInt(call.args.evento_id)
       /\ Foreign(OwnerOfEvento(d, Val(call.args.evento_id)), u)

ForeignCalls ==
    {i \in 1..Len(last.tool_calls) :
        CallTargetsForeign(last.tool_calls[i], last.pre, last.usuario_id)}

ActionTargetOwned(a, d, u) ==
    /\ a.kind \in {"update_materia", "delete_materia"}
          => OwnerOfMateria(d, Val(a.args.materia_id)) = u
    /\ a.kind = "create_evento"
          => OwnerOfMateria(d, Val(a.args.evento_materia_id)) = u
    /\ a.kind \in {"update_evento", "delete_evento"}
          => OwnerOfEvento(d, Val(a.args.evento_id)) = u

C2_PlannedTargetsOwned ==
    Planned =>
      /\ \A k \in 1..Len(last.plan.actions) :
            ActionTargetOwned(last.plan.actions[k], last.pre, last.usuario_id)
      /\ Len(last.plan.actions) <= Len(last.tool_calls) - Cardinality(ForeignCalls)
      /\ Len(last.plan.summary.errors) >= Cardinality(ForeignCalls)

\* a planned batch named another user's resource by id, next to a call that
\* gave an action
C2_Witness ==
    /\ Planned
    /\ ForeignCalls # {}
    /\ Len(last.plan.actions) = 1
    /\ Len(last.plan.summary.errors) = 1

\* ------------------------------------------------------------------------
\* C3  Idempotency gating of create_materia.  A planned create_materia action
\* has allow = TRUE exactly when the owner has no subject of the (trimmed)
\* name at planning time; otherwise it has allow = FALSE, the "ya existe"
\* conflict and resolved.materia_id set to the existing subject's id.
\* ------------------------------------------------------------------------
MateriaYaExiste == "Materia ya existe; solo se permite update/delete."

C3_CreateMateriaGating ==
    Planned =>
      \A k \in 1..Len(last.plan.actions) :
         LET a == last.plan.actions[k]
             existing == MateriasByName(last.pre, last.usuario_id,
                                        Val(a.args.materia_nombre))
         IN  a.kind = "create_materia" =>
               /\ a.allow = Some(existing = {})
               /\ existing # {} =>
                     /\ a.conflict = Some(MateriaYaExiste)
                     /\ \E m \in existing :
                           a.resolved.materia_id = Some(m.materia_id)

\* ------------------------------------------------------------------------
\* C4  Idempotency gating of create_evento.  A planned create_evento action
\* has allow = TRUE exactly when its subject exists and no event has its
\* natural key (subject id, name, date) at planning time; otherwise it has
\* allow = FALSE and a conflict reason.
\* ------------------------------------------------------------------------
EventosByKey(d, a) ==
    {e \in d.eventos :
        /\ Some(e.evento_materia_id) = a.args.evento_materia_id
        /\ Some(e.evento_nombre) = a.args.evento_nombre
        /\ Some(e.evento_fecha) = fromisoformat(Val(a.args.evento_fecha))}

C4_CreateEventoGating ==
    Planned =>
      \A k \in 1..Len(last.plan.actions) :
         LET a == last.plan.actions[k]
             subject == GetMateria(last.pre, Val(a.args.evento_materia_id))
         IN  a.kind = "create_evento" =>
               /\ a.allow = Some(subject # None /\ EventosByKey(last.pre, a) = {})
               /\ a.allow = Some(FALSE) => a.conflict # None

\* a create_evento was planned while an event of its key existed, and was
\* blocked
C4_Witness ==
    /\ Planned
    /\ \E k \in 1..Len(last.plan.actions) :
          /\ last.plan.actions[k].kind = "create_evento"
          /\ EventosByKey(last.pre, last.plan.actions[k]) # {}
          /\ last.plan.actions[k].allow = Some(FALSE)

\* ------------------------------------------------------------------------
\* C5  Planner partial-failure isolation.  A tool call that by itself plans
\* to no action (malformed, unresolvable, foreign-owned, unknown name) adds
\* error strings only: the plan of the batch has the actions, with the same
\* kind, args, allow and conflict, that the batch without that call plans to,
\* and one error at least.
\* ------------------------------------------------------------------------
\* seq without its i-th element
RemoveAt(seq, i) == SubSeq(seq, 1, i - 1) \o SubSeq(seq, i + 1, Len(seq))

\* call i of the planned batch yields no action when planned alone
FailingCalls ==
    {i \in 1..Len(last.tool_calls) :
        plan_actions(last.pre, last.usuario_id, <<last.tool_calls[i]>>).actions
           = <<>>}

C5_PlannerIsolation ==
    Planned =>
      \A i \in FailingCalls :
         /\ last.plan.actions =
               plan_actions(last.pre, last.usuario_id,
                            RemoveAt(last.tool_calls, i)).actions
         /\ Len(last.plan.summary.errors) >= 1

\* a batch of a failing call and, after or before it, a call that planned to
\* an action
C5_Witness ==
    /\ Planned
    /\ FailingCalls # {}
    /\ Len(last.tool_calls) = 2
    /\ Len(last.plan.actions) = 1

\* ------------------------------------------------------------------------
\* C6  Neither the planner nor the executor raises: on every store the
\* system's own plan and execute requests lead to, plan_actions returns a
\* PlanResult (it does not raise) and the request is not answered with a
\* server error.
\* ------------------------------------------------------------------------
C6_NoEscapingException ==
    Handled => ~last.plan.raised /\ last.status # 500

\* ------------------------------------------------------------------------
\* C7  Executor partial-failure isolation.  execute_actions attempts every
\* action once and in order: there is one result per action, of the action's
\* kind; result k is what the k-th action does on the store the first k-1
\* actions left, and the final store is the one the last action left; a
\* failed action has an error result with its description and a message;
\* what an earlier successful create committed is still in the store unless
\* a later action of the batch succeeded on it.
\* ------------------------------------------------------------------------
Executing == last.op = "execute_actions"

\* the store after the first k actions of `last`, each run on its own
RECURSIVE StoreAfter(_)
StoreAfter(k) ==
    IF k = 0 THEN last.pre
    ELSE exec_step(StoreAfter(k - 1), last.usuario_id, last.actions[k]).db

\* a later action than k succeeded (any of them may have touched the row)
LaterSuccess(results, k) ==
    \E j \in (k + 1)..Len(results) : results[j].status = "success"

C7_ExecutorIsolation ==
    Executing =>
      LET results == PerAction(last.results)
          n == Len(last.actions)
      IN  /\ Len(results) = n
          /\ db = StoreAfter(n)
          /\ \A k \in 1..n :
                /\ results[k] =
                      exec_step(StoreAfter(k - 1), last.usuario_id,
                                last.actions[k]).result
                /\ results[k].kind = last.actions[k].kind
                /\ results[k].status = "error" =>
                      /\ results[k].description = Some(last.actions[k].description)
                      /\ results[k].error # None
                /\ (results[k].status = "success" /\ ~LaterSuccess(results, k)) =>
                      /\ results[k].materia # None
                            => Val(results[k].materia) \in db.materias
                      /\ results[k].evento # None
                            => Val(results[k].evento) \in db.eventos

\* the first action failed, the second one succeeded all the same
C7_Witness ==
    /\ Executing
    /\ Len(last.actions) = 2
    /\ last.results[1].status = "error"
    /\ last.results[2].status = "success"
    /\ db # last.pre

\* ------------------------------------------------------------------------
\* C8  An action with allow = FALSE handed to execute_actions is not run:
\* its result is "skipped" with the action's conflict reason, and the store
\* and the other results are those of the list without the blocked actions.
\* ------------------------------------------------------------------------
C8_BlockedNeverExecuted ==
    Executing =>
      LET results == PerAction(last.results)
          blocked == {k \in 1..Len(last.actions) : ~Allowed(last.actions[k])}
          others == execute_actions(last.pre, last.usuario_id,
                                    SelectSeqAllowed(last.actions))
      IN  /\ \A k \in blocked :
                /\ results[k].status = "skipped"
                /\ results[k].reason = last.actions[k].conflict
          /\ db = others.db
          /\ blocked = DOMAIN last.actions => db = last.pre

\* a blocked delete of a subject the caller owns: it would have succeeded
C8_Witness ==
    /\ Executing
    /\ \E k \in 1..Len(last.actions) :
          /\ last.actions[k].kind = "delete_materia"
          /\ ~Allowed(last.actions[k])
          /\ OwnerOfMateria(StoreAfter(k - 1), Val(last.actions[k].args.materia_id))
                = last.usuario_id
          /\ last.results[k].status = "skipped"

\* ------------------------------------------------------------------------
\* C9  End-to-end blocked create.  A create-subject command was planned while
\* the user had a subject of that name, and the client sent the plan's
\* actions back in execute mode: the response's results hold an entry for
\* the blocked action with status "skipped", and the subjects are unchanged
\* when the plan had nothing else in it.
\* ------------------------------------------------------------------------
PlanSentBack == last.op = "replay" /\ last.echoed

BlockedCreateMateria(a) ==
    /\ a.kind = "create_materia"
    /\ ~Allowed(a)
    /\ a.resolved.materia_id # None

C9_BlockedCreateSkipped ==
    PlanSentBack =>
      \A k \in 1..Len(last.plan.actions) :
         BlockedCreateMateria(last.plan.actions[k]) =>
            /\ last.status = 200
            /\ \E j \in 1..Len(last.results) :
                  /\ last.results[j].kind = "create_materia"
                  /\ last.results[j].status = "skipped"
            /\ Len(last.plan.actions) = 1 => db.materias = last.pre.materias

\* ------------------------------------------------------------------------
\* C10  Order stability.  The actions of a plan are the actions of its tool
\* calls in the order of the calls (planning the calls one by one and
\* joining the plans in call order gives the same list), and the k-th
\* per-action result of an execution is the outcome of the k-th action
\* handed to execute_actions, run after the k-1 actions before it.
\* ------------------------------------------------------------------------
RECURSIVE PlanOneByOne(_, _, _)
PlanOneByOne(d, usuario_id, calls) ==
    IF calls = <<>> THEN <<>>
    ELSE plan_actions(d, usuario_id, <<Head(calls)>>).actions
            \o PlanOneByOne(d, usuario_id, Tail(calls))

\* the actions the request of `last` handed to execute_actions
ExecutedActions ==
    IF last.op \in {"execute", "replay"} /\ last.planned /\ ~last.plan.raised
    THEN SelectSeqAllowed(last.plan.actions)
    ELSE ReplayedActions

\* the result of the k-th of actions, run after the ones before it
OutcomeOf(actions, k) ==
    PerAction(execute_actions(last.pre, last.usuario_id,
                              SubSeq(actions, 1, k)).results)[k]

C10_OrderStability ==
    /\ (last.op \in {"plan", "execute"} /\ ~last.plan.raised) =>
          last.plan.actions =
             PlanOneByOne(last.pre, last.usuario_id, last.tool_calls)
    /\ (last.op \in {"execute", "replay"} /\ last.status = 200) =>
          LET results == PerAction(last.results)
              actions == ExecutedActions
          IN  /\ Len(results) = Len(actions)
              /\ \A k \in 1..Len(actions) :
                    /\ results[k].kind = actions[k].kind
                    /\ results[k] = OutcomeOf(actions, k)

\* two tool calls gave two actions of different kinds, both executed, with
\* different outcomes
C10_Witness ==
    /\ last.op = "execute"
    /\ Len(last.tool_calls) = 2
    /\ Len(last.plan.actions) = 2
    /\ last.plan.actions[1].kind # last.plan.actions[2].kind
    /\ Len(PerAction(last.results)) = 2
    /\ last.results[1].kind = last.plan.actions[1].kind
    /\ last.results[2].kind = last.plan.actions[2].kind
    /\ last.results[1].status # last.results[2].status

\* ------------------------------------------------------------------------
\* C11  No tool call is silently dropped.  In every plan that plan_actions
\* returns, each tool call of the batch (known or unknown name, no name,
\* empty, unresolvable or ambiguous references) has, planned on its own, at
\* least one action or one error string, and the actions and error strings
\* of the batch are those of its calls, all of them, in call order.
\* ------------------------------------------------------------------------
RECURSIVE ErrorsOneByOne(_, _, _)
ErrorsOneByOne(d, usuario_id, calls) ==
    IF calls = <<>> THEN <<>>
    ELSE plan_actions(d, usuario_id, <<Head(calls)>>).summary.errors
            \o ErrorsOneByOne(d, usuario_id, Tail(calls))

PlanReturned == last.op \in {"plan", "execute"} /\ ~last.plan.raised

AllAllowed(actions) == \A k \in 1..Len(actions) : Allowed(actions[k])

C12_PlanRoundTrip ==
    (PlanSentBack /\ AllAllowed(last.plan.actions)) =>
      LET p == last.plan
          back == deserialize_actions(serialize_plan(p).actions)
          direct == execute_actions(last.pre, last.usuario_id, p.actions)
          atOnce == nl_command_execute(last.pre, last.usuario_id, None,
                                       last.tool_calls)
      IN  /\ Val(last.items) = serialize_plan(p).actions
          /\ back.ok
          /\ Len(back.actions) = Len(p.actions)
          /\ \A k \in 1..Len(p.actions) :
                /\ back.actions[k].kind = p.actions[k].kind
                /\ back.actions[k].args = p.actions[k].args
                /\ back.actions[k].description = p.actions[k].description
                /\ back.actions[k].allow = p.actions[k].allow
                /\ back.actions[k].resolved = p.actions[k].resolved
                /\ back.actions[k].conflict = p.actions[k].conflict
          /\ last.status = 200
          /\ p.actions # <<>> => last.results = direct.results /\ db = direct.db
          /\ last.results = atOnce.results /\ db = atOnce.db

\* a plan of two allowed actions sent back, both executed with success
C12_Witness ==
    /\ PlanSentBack
    /\ Len(last.plan.actions) = 2
    /\ AllAllowed(last.plan.actions)
    /\ Len(PerAction(last.results)) = 2
    /\ \A k \in 1..2 : last.results[k].status = "success"
    /\ db # last.pre

\* ------------------------------------------------------------------------
\* C13  Structural re-validation of a replayed list.  When an item of the
\* submitted list lacks kind or lacks args, deserialize_actions fails, its
\* error names the index of the first such item, the request is answered 400
\* with no results, and the store is unchanged, whatever the well-formed
\* items before the offending one would have done.
\* ------------------------------------------------------------------------
Malformed(item) == item.kind = None \/ item.args = None

C13_MalformedListRejected ==
    (last.op = "replay" /\ \E i \in 1..Len(Val(last.items)) :
                              Malformed(Val(last.items)[i])) =>
      LET items == Val(last.items)
          des == deserialize_actions(items)
      IN  /\ ~des.ok
          /\ des.index # None
          /\ Malformed(items[Val(des.index) + 1])
          /\ \A j \in 1..Val(des.index) : ~Malformed(items[j])
          /\ last.status = 400
          /\ last.results = <<>>
          /\ db = last.pre

\* a well-formed allowed item that would have changed the store, then an
\* item without kind or args
C13_Witness ==
    /\ last.op = "replay"
    /\ Len(Val(last.items)) = 2
    /\ ~Malformed(Val(last.items)[1])
    /\ Malformed(Val(last.items)[2])
    /\ execute_actions(last.pre, last.usuario_id,
                       <<deserialize_action(Val(last.items)[1])>>).db # last.pre
    /\ last.status = 400
    /\ db = last.pre

\* ------------------------------------------------------------------------
\* C14  Execution-time re-verification.  When an allowed action is executed
\* on a store where its precondition does not hold (the subject or event to
\* create exists by natural key; the subject or event to update or delete is
\* missing or belongs to another user), its result is an error and the store
\* is left as it was: no second resource with the same natural key appears.
\* ------------------------------------------------------------------------
PreconditionBroken(d, u, a) ==
    \/ /\ a.kind = "create_materia"
       /\ a.args.materia_nombre # None
       /\ MateriasByName(d, u, Strip(Val(a.args.materia_nombre))) # {}
    \/ /\ a.kind = "create_evento"
       /\ a.args.evento_fecha # None
       /\ EventosByKey(d, a) # {}
    \/ /\ a.kind \in {"update_materia", "delete_materia"}
       /\ a.args.materia_id # None
       /\ OwnerOfMateria(d, Val(a.args.materia_id)) # u
    \/ /\ a.kind \in {"update_evento", "delete_evento"}
       /\ a.args.evento_id # None
       /\ OwnerOfEvento(d, Val(a.args.evento_id)) # u

C14_ExecutionReverifies ==
    Executing =>
      \A k \in 1..Len(last.actions) :
         (/\ Allowed(last.actions[k])
          /\ PreconditionBroken(StoreAfter(k - 1), last.usuario_id,
                                last.actions[k])) =>
            /\ last.results[k].status = "error"
            /\ StoreAfter(k) = StoreAfter(k - 1)

\* ------------------------------------------------------------------------
\* C15  Event resolution by subject reference alone
\* ------------------------------------------------------------------------
\* the subject references tried against every reachable store
SubjectRefs == {<<"a">>, <<" ", "a">>, <<"a", " ">>, <<"b">>, <<"A">>, <<" ">>, <<>>}

EventosOfMateria(d, m) == {e \in d.eventos : e.evento_materia_id = m.materia_id}

EventosOfUsuario(d, usuario_id) ==
    {e \in d.eventos : OwnerOfEvento(d, e.evento_id) = usuario_id}

BySubjectAlone(usuario_id, ref) ==
    find_evento_by_references(db, usuario_id, None, Some(ref))

\* what the resolution by subject alone must answer when the subjects the
\* reference names are `named`
SubjectAloneAnswer(r, named) ==
    /\ r.ok
    /\ r.val # None <=>
          \E m \in named : Cardinality(EventosOfMateria(db, m)) = 1
    /\ r.val # None =>
          \E m \in named : EventosOfMateria(db, m) = {Val(r.val)}

\* C15 as stated: for every owner and subject reference,
\* _find_evento_by_references with a subject reference and no event-name
\* reference returns an event iff the owner has a subject of exactly that
\* name and that subject has exactly one event (and then returns that
\* event); otherwise it returns None.
C15_BySubjectAlone ==
    \A u \in Usuarios, ref \in SubjectRefs :
        SubjectAloneAnswer(BySubjectAlone(u, ref), MateriasByName(db, u, ref))

\* C15 amended: for every owner and non-empty subject reference,
\* _find_evento_by_references with no event-name reference returns an event
\* iff the owner has a subject whose name equals the reference with its
\* surrounding blanks removed and that subject has exactly one event (and
\* then returns that event), otherwise None; an empty subject reference
\* counts as no reference, and the owner's only event is returned iff the
\* owner has exactly one event.
C15_BySubjectAloneStripped ==
    \A u \in Usuarios, ref \in SubjectRefs :
        IF ref # <<>>
        THEN SubjectAloneAnswer(BySubjectAlone(u, ref),
                                MateriasByName(db, u, Strip(ref)))
        ELSE /\ BySubjectAlone(u, ref).ok
             /\ BySubjectAlone(u, ref).val # None <=>
                   Cardinality(EventosOfUsuario(db, u)) = 1
             /\ BySubjectAlone(u, ref).val # None =>
                   EventosOfUsuario(db, u) = {Val(BySubjectAlone(u, ref).val)}

\* a reference with surrounding blanks resolves the only event of the
\* subject it names, while the same owner has another subject with events
C15_Witness ==
    \E u \in Usuarios, ref \in SubjectRefs :
        /\ ref # Strip(ref)
        /\ BySubjectAlone(u, ref).ok
        /\ BySubjectAlone(u, ref).val # None
        /\ Cardinality(EventosOfUsuario(db, u)) = 2

\* ------------------------------------------------------------------------
\* C16  Event resolution fails closed
\* ------------------------------------------------------------------------
\* the optional references tried against every reachable store
OptEventoRefs ==
    {None, Some(<<"x">>), Some(<<"X">>), Some(<<" ", "x">>), Some(<<"b">>),
     Some(<<"_">>), Some(<<"%">>), Some(<<" ">>)}
OptMateriaRefs == {None, Some(<<"a">>), Some(<<" ", "a">>), Some(<<"b">>)}

\* s contains sub, ignoring case
ContainsIgnoringCase(s, sub) ==
    \E i \in 0..(Len(s) - Len(sub)) :
        \A j \in 1..Len(sub) : LowerChar(s[i + j]) = LowerChar(sub[j])

\* the events of the owner's subjects that satisfy every supplied filter,
\* a reference being read without the blanks around it
EventosSatisfying(usuario_id, evento_ref, materia_ref) ==
    {e \in EventosOfUsuario(db, usuario_id) :
        /\ TruthyStr(materia_ref) =>
              \E m \in MateriasByName(db, usuario_id, Strip(Val(materia_ref))) :
                  e.evento_materia_id = m.materia_id
        /\ TruthyStr(evento_ref) =>
              ContainsIgnoringCase(e.evento_nombre, Strip(Val(evento_ref)))}

FailsClosedOn(evento_refs, materia_refs) ==
    \A u \in Usuarios, evento_ref \in evento_refs, materia_ref \in materia_refs :
        /\ find_evento_by_references(db, u, evento_ref, materia_ref).ok
        /\ find_evento_by_references(db, u, evento_ref, materia_ref).val # None =>
              EventosSatisfying(u, evento_ref, materia_ref) =
                 {Val(find_evento_by_references(db, u, evento_ref, materia_ref).val)}

\* C16: _find_evento_by_references returns event e only if e belongs to a
\* subject of the requesting owner, e satisfies every supplied filter
\* (subject name equal to the reference, event name containing the reference
\* case-insensitively) and e is the only such event; with several such
\* events, with none, or with a subject reference that names no subject of
\* the owner, it returns None.
C16_FailsClosed == FailsClosedOn(OptEventoRefs, OptMateriaRefs)

\* ------------------------------------------------------------------------
\* C17  The ownership guard distinguishes its two failure modes
\* ------------------------------------------------------------------------
MateriaIds == 1..MaxMateriaId
EventoIds == 1..MaxEventoId

MateriaAbsent(id) == GetMateria(db, id) = None
MateriaForeign(u, id) == ~MateriaAbsent(id) /\ OwnerOfMateria(db, id) # u
EventoAbsent(id) == GetEvento(db, id) = None
EventoForeign(u, id) == ~EventoAbsent(id) /\ OwnerOfEvento(db, id) # u

\* the guards of the services tell an absent subject or event from a foreign
\* one
ServiceGuardsDistinguish ==
    \A u \in Usuarios :
        /\ \A id \in MateriaIds :
              /\ MateriaAbsent(id) =>
                    /\ get_materia_autorizada_exc(db, id, u) = "MateriaNoEncontrada"
                    /\ assert_materia_propia_exc(db, id, u) = "MateriaNoEncontrada"
              /\ MateriaForeign(u, id) =>
                    /\ get_materia_autorizada_exc(db, id, u) = "AccesoNoAutorizado"
                    /\ assert_materia_propia_exc(db, id, u) = "AccesoNoAutorizado"
        /\ \A id \in EventoIds :
              /\ EventoAbsent(id) =>
                    get_evento_autorizado_exc(db, id, u) = "EventoNoEncontrado"
              /\ EventoForeign(u, id) =>
                    get_evento_autorizado_exc(db, id, u) = "AccesoNoAutorizado"

\* the guards of the planner fail on an absent and on a foreign subject or
\* event, with one error for the absent and another for the foreign
PlannerGuardsDistinguish ==
    \A u \in Usuarios :
        /\ \A absent \in MateriaIds, foreign \in MateriaIds :
              (MateriaAbsent(absent) /\ MateriaForeign(u, foreign)) =>
                 /\ ensure_ownership_materia_exc(db, u, absent) # ""
                 /\ ensure_ownership_materia_exc(db, u, foreign) # ""
                 /\ ensure_ownership_materia_exc(db, u, absent) #
                       ensure_ownership_materia_exc(db, u, foreign)
        /\ \A absent \in EventoIds, foreign \in EventoIds :
              (EventoAbsent(absent) /\ EventoForeign(u, foreign)) =>
                 /\ ensure_ownership_evento_exc(db, u, absent) # ""
                 /\ ensure_ownership_evento_exc(db, u, foreign) # ""
                 /\ ensure_ownership_evento_exc(db, u, absent) #
                       ensure_ownership_evento_exc(db, u, foreign)

\* C17: checking a subject id that does not exist fails with a NotFound
\* error, checking a subject id that exists but is owned by another user
\* fails with a distinct Unauthorized error, and the event guard makes the
\* same distinction through the event's subject.
C17_GuardDistinguishes == ServiceGuardsDistinguish /\ PlannerGuardsDistinguish

\* ------------------------------------------------------------------------
\* C18  Idempotent commands
\* ------------------------------------------------------------------------
\* the request just answered planned and executed a batch of tool calls
PlannedAndExecuted == last.op = "execute"

\* the store after the same user sends the same batch once more
StoreAfterSecondRun ==
    nl_command_execute(db, last.usuario_id, None, last.tool_calls).db

\* C18: running plan-then-execute of the same batch of tool calls a second
\* time for the same user, with nothing in between, leaves the subjects and
\* the events as the first run left them.
C18_IdempotentCommands ==
    PlannedAndExecuted =>
        /\ StoreAfterSecondRun.materias = db.materias
        /\ StoreAfterSecondRun.eventos = db.eventos

\* ------------------------------------------------------------------------
\* C19  Sequential visibility inside one batch
\* ------------------------------------------------------------------------
\* tool call i creates a subject and the later tool call j creates an event
\* in the subject of that name
CreatesThenRefers(calls, i, j) ==
    /\ i < j
    /\ calls[i].name = Some("create_materia")
    /\ TruthyStr(calls[i].args.materia_nombre)
    /\ Strip(Val(calls[i].args.materia_nombre)) # <<>>
    /\ calls[j].name = Some("create_evento")
    /\ calls[j].args.evento_materia_id = None
    /\ TruthyStr(calls[j].args.materia_ref)
    /\ Strip(Val(calls[j].args.materia_ref)) = Strip(Val(calls[i].args.materia_nombre))
    /\ TruthyStr(calls[j].args.evento_nombre)
    /\ fromisoformat(Val(calls[j].args.evento_fecha)) # None

\* C19: a plan-and-execute request whose batch first creates subject X and
\* then creates an event in X by name, X being new to the user, ends with
\* the event stored in the newly created subject.
C19_SequentialVisibility ==
    PlannedAndExecuted =>
        \A i, j \in 1..Len(last.tool_calls) :
            (/\ CreatesThenRefers(last.tool_calls, i, j)
             /\ MateriasByName(last.pre, last.usuario_id,
                               Strip(Val(last.tool_calls[i].args.materia_nombre))) = {}) =>
                \E m \in MateriasByName(db, last.usuario_id,
                                        Strip(Val(last.tool_calls[i].args.materia_nombre))) :
                    EventosOfMateria(db, m) # {}

\* ------------------------------------------------------------------------
\* C20  Upstream degradation
\* ------------------------------------------------------------------------
\* the request just answered asked the language model, and the call failed
\* or gave no tool calls
NoToolCalls ==
    /\ last.op \in {"plan", "execute"}
    /\ last.llm_raised \/ last.tool_calls = <<>>

\* C20: when the language-model call fails or returns no tool calls,
\* plan_actions returns a PlanResult with no actions and the summary that
\* asks the user to rephrase, the endpoint answers 200 with nothing planned
\* and nothing executed in both modes, and the store is unchanged.
C20_UpstreamDegradation ==
    NoToolCalls =>
        /\ last.plan = PlanResult(<<>>, NoActionsSummary)
        /\ last.status = 200
        /\ last.response_actions = <<>>
        /\ last.results = <<>>
        /\ db = last.pre

\* the call fails in execute mode for a user who has subjects
C20_Witness ==
    /\ last.op = "execute"
    /\ last.llm_raised
    /\ last.status = 200
    /\ MateriasByName(db, last.usuario_id, <<"a">>) # {}

\* ------------------------------------------------------------------------
\* C21  Planning has no effect on the store
\* ------------------------------------------------------------------------
\* the request just answered was a plan-mode request
PlanMode == last.op = "plan"

\* C21: a plan-mode request, whatever its batch of tool calls and whatever
\* the store, leaves every subject and every event as it was; the store
\* differs from the one the request found only after an execute-mode
\* request.
C21_PlanningHasNoEffect ==
    /\ PlanMode => db = last.pre
    /\ (last.op # "none" /\ db # last.pre) =>
          last.op \in {"execute", "replay", "execute_actions"}

\* a plan with an allowed action was returned on a store that has subjects
C21_Witness ==
    /\ PlanMode
    /\ last.status = 200
    /\ \E k \in 1..Len(last.plan.actions) : Allowed(last.plan.actions[k])
    /\ db.materias # {}

\* ------------------------------------------------------------------------
\* C22  Replay without re-planning
\* ------------------------------------------------------------------------
\* the request just answered was an execute-mode request with an actions list
ActionsSupplied == last.op = "replay"

\* the answer and the store an execute-mode request gives when only the
\* supplied list is used
OnlySupplied ==
    IF deserialize_actions(Val(last.items)).ok
    THEN filter_and_execute(last.pre, last.usuario_id,
                            deserialize_actions(Val(last.items)).actions)
    ELSE Response(last.pre, 400, "Error en accion", <<>>, <<>>)

\* C22: in execute mode, whenever the request supplies an actions list, of
\* any length and the empty list included, plan_actions is not called (so the
\* language model is not asked) and the store and the results are those of
\* executing the allowed actions of the supplied list and nothing else.
C22_ReplayWithoutReplanning ==
    ActionsSupplied =>
        /\ ~last.planned
        /\ db = OnlySupplied.db
        /\ last.results = OnlySupplied.results
        /\ last.status = OnlySupplied.status

\* ------------------------------------------------------------------------
\* C23  Duplicate-create race
\* ------------------------------------------------------------------------
\* request r found the name free and has returned
PassedCheck(r) == pc[r] = "done" /\ last[r].passed

\* C23: nothing between the existence check and the insert of create_subject
\* stops the insert: a request that found the name free always inserts its
\* subject and returns it, whatever the other requests committed in the
\* meantime, so overlapping creates of one name by one user all insert.
C23_DuplicateCreateRace ==
    \A r \in Requests :
        PassedCheck(r) =>
            /\ last[r].exc = ""
            /\ last[r].materia # None
            /\ Val(last[r].materia) \in db.materias

\* two overlapping requests of one user have both inserted a subject of the
\* same name
C23_Witness ==
    \E r1, r2 \in Requests :
        /\ r1 # r2
        /\ PassedCheck(r1) /\ PassedCheck(r2)
        /\ last[r1].materia # None /\ last[r2].materia # None
        /\ Val(last[r1].materia).materia_id # Val(last[r2].materia).materia_id
        /\ Val(last[r1].materia).materia_usuario_id =
              Val(last[r2].materia).materia_usuario_id
        /\ Val(last[r1].materia).materia_nombre = Val(last[r2].materia).materia_nombre
        /\ {Val(last[r1].materia), Val(last[r2].materia)} \subseteq db.materias

\* ------------------------------------------------------------------------
\* C24  Execution summary
\* ------------------------------------------------------------------------
\* C24: execute_actions returns one per-action result for each input action,
\* in order, followed by one execution_summary record iff more than one
\* action was submitted; in that record total_actions is the number of
\* submitted actions, successful + failed + skipped equals total_actions,
\* and each count is the number of per-action results with that status.
C24_ExecutionSummary ==
    Executing =>
        LET n == Len(last.actions)
            results == last.results
        IN  /\ Len(results) = IF n > 1 THEN n + 1 ELSE n
            /\ \A k \in 1..n :
                  /\ results[k].kind = last.actions[k].kind
                  /\ results[k].status \in {"success", "error", "skipped"}
            /\ n > 1 =>
                  /\ results[n + 1].kind = "execution_summary"
                  /\ results[n + 1].total_actions = n
                  /\ results[n + 1].successful + results[n + 1].failed
                        + results[n + 1].skipped = n
                  /\ results[n + 1].successful =
                        CountStatus(SubSeq(results, 1, n), "success")
                  /\ results[n + 1].failed =
                        CountStatus(SubSeq(results, 1, n), "error")
                  /\ results[n + 1].skipped =
                        CountStatus(SubSeq(results, 1, n), "skipped")

\* two actions were submitted, one was skipped and the other succeeded
C24_Witness ==
    /\ Executing
    /\ Len(last.actions) = 2
    /\ Len(last.results) = 3
    /\ last.results[3].skipped = 1
    /\ last.results[3].successful = 1

\* ------------------------------------------------------------------------
\* C25  Event natural-key uniqueness
\* ------------------------------------------------------------------------
SameNaturalKey(e1, e2) ==
    /\ e1.evento_materia_id = e2.evento_materia_id
    /\ e1.evento_nombre = e2.evento_nombre
    /\ e1.evento_fecha = e2.evento_fecha

\* C25: after any sequence of non-overlapping plan and execute requests no
\* two events share the natural key (subject id, name, date).
C25_EventoNaturalKeyUnique ==
    \A e1, e2 \in db.eventos : SameNaturalKey(e1, e2) => e1 = e2

\* ------------------------------------------------------------------------
\* C26  Subject-name uniqueness under sequential use
\* ------------------------------------------------------------------------
\* action a creates a subject, or renames one of the user's subjects, under
\* a name that another subject of the user has in store d
OntoUsedName(d, u, a) ==
    \/ /\ a.kind = "create_materia"
       /\ ValidNombre(a.args.materia_nombre)
       /\ MateriasByName(d, u, Strip(Val(a.args.materia_nombre))) # {}
    \/ /\ a.kind = "update_materia"
       /\ a.args.materia_id # None
       /\ OwnerOfMateria(d, Val(a.args.materia_id)) = u
       /\ TruthyStr(a.args.materia_nombre)
       /\ \E m \in MateriasByName(d, u, Strip(Val(a.args.materia_nombre))) :
              m.materia_id # Val(a.args.materia_id)

\* C26: with requests that do not overlap, no two subjects of one owner have
\* the same name, and an executed create or rename onto a name another
\* subject of that owner has ends as an error and leaves every subject as it
\* was.
C26_MateriaNombreUnique ==
    /\ \A m1, m2 \in db.materias :
          (/\ m1.materia_usuario_id = m2.materia_usuario_id
           /\ m1.materia_nombre = m2.materia_nombre) => m1 = m2
    /\ Executing =>
          \A k \in 1..Len(last.actions) :
              (/\ Allowed(last.actions[k])
               /\ OntoUsedName(StoreAfter(k - 1), last.usuario_id, last.actions[k])) =>
                  /\ last.results[k].status = "error"
                  /\ StoreAfter(k).materias = StoreAfter(k - 1).materias

\* a rename onto the name of another subject of the user ended as an error
C26_Witness ==
    /\ Executing
    /\ \E k \in 1..Len(last.actions) :
          /\ last.actions[k].kind = "update_materia"
          /\ Allowed(last.actions[k])
          /\ OntoUsedName(StoreAfter(k - 1), last.usuario_id, last.actions[k])
          /\ last.results[k].status = "error"

\* ------------------------------------------------------------------------
\* C27  Referential integrity
\* ------------------------------------------------------------------------
\* the request just answered executed actions
ActionsExecuted == last.op \in {"execute", "replay"} /\ last.status = 200

\* the store after the first k of the executed actions
StoreAt(k) ==
    execute_actions(last.pre, last.usuario_id, SubSeq(ExecutedActions, 1, k)).db

\* the events of the subject that the k-th executed action deletes
EventosDeletedWith(k) ==
    {e \in StoreAt(k - 1).eventos :
        /\ ExecutedActions[k].kind = "delete_materia"
        /\ PerAction(last.results)[k].status = "success"
        /\ Some(e.evento_materia_id) = ExecutedActions[k].args.materia_id}

\* the j-th executed action updates or deletes event e
TargetsEvento(j, e) ==
    /\ ExecutedActions[j].kind \in {"update_evento", "delete_evento"}
    /\ ExecutedActions[j].args.evento_id = Some(e.evento_id)

\* C27: every event's subject exists; deleting a subject removes all of its
\* events, and an update_evento or delete_evento action later in the same
\* batch, or in the replayed plan, that targets one of those events ends as
\* an error and changes nothing.
C27_ReferentialIntegrity ==
    /\ \A e \in db.eventos : GetMateria(db, e.evento_materia_id) # None
    /\ ActionsExecuted =>
          /\ db = StoreAt(Len(ExecutedActions))
          /\ \A k \in 1..Len(ExecutedActions) :
                \A e \in EventosDeletedWith(k) :
                    /\ e \notin StoreAt(k).eventos
                    /\ \A j \in (k + 1)..Len(ExecutedActions) :
                          TargetsEvento(j, e) =>
                             /\ PerAction(last.results)[j].status = "error"
                             /\ StoreAt(j) = StoreAt(j - 1)

\* a subject with an event was deleted and a later action of the batch that
\* targets the event ended as an error
C27_Witness ==
    /\ ActionsExecuted
    /\ \E k \in 1..Len(ExecutedActions) :
          \E e \in EventosDeletedWith(k) :
              \E j \in (k + 1)..Len(ExecutedActions) :
                  /\ TargetsEvento(j, e)
                  /\ PerAction(last.results)[j].status = "error"

\* ------------------------------------------------------------------------
\* C28  Optional event fields are carried through normalization
\* ------------------------------------------------------------------------
\* tool calls that supply a description, tried on every reachable store
CreateWithDescripcion ==
    ToolCall("create_evento", [evento_materia_id |-> 1, evento_nombre |-> <<"b">>,
                               evento_fecha |-> "2025-03-02",
                               evento_descripcion |-> <<"x">>])
UpdateWithDescripcion ==
    ToolCall("update_evento", [evento_id |-> 1, evento_descripcion |-> <<"x">>])

\* what executing the plan of the one tool call gives on the store
PlannedAlone(u, call) == plan_actions(db, u, <<call>>).actions
ExecutedAlone(u, call) == execute_actions(db, u, PlannedAlone(u, call)).db

UpdateFields == {"evento_nombre", "evento_fecha", "evento_estado", "evento_descripcion"}

\* C28: when a create_evento or update_evento tool call supplies a
\* description, the planned action's args contain it and the executed event
\* stores it; the fields an update_evento call does not supply are absent
\* from the action's args and unchanged by the execution.
C28_OptionalFieldsCarried ==
    \A u \in Usuarios :
        /\ \A k \in 1..Len(PlannedAlone(u, CreateWithDescripcion)) :
              /\ PlannedAlone(u, CreateWithDescripcion)[k].args.evento_descripcion
                    = CreateWithDescripcion.args.evento_descripcion
              /\ \A e \in ExecutedAlone(u, CreateWithDescripcion).eventos \ db.eventos :
                    e.evento_descripcion = CreateWithDescripcion.args.evento_descripcion
        /\ \A k \in 1..Len(PlannedAlone(u, UpdateWithDescripcion)) :
              /\ PlannedAlone(u, UpdateWithDescripcion)[k].args.evento_descripcion
                    = UpdateWithDescripcion.args.evento_descripcion
              /\ \A f \in UpdateFields :
                    UpdateWithDescripcion.args[f] = None =>
                       /\ PlannedAlone(u, UpdateWithDescripcion)[k].args[f] = None
                       /\ Val(GetEvento(ExecutedAlone(u, UpdateWithDescripcion), 1))[f]
                             = Val(GetEvento(db, 1))[f]
              /\ Val(GetEvento(ExecutedAlone(u, UpdateWithDescripcion), 1)).evento_descripcion
                    = UpdateWithDescripcion.args.evento_descripcion

\* ------------------------------------------------------------------------
\* C29  Only creates can be blocked in a plan
\* ------------------------------------------------------------------------
UpdateOrDelete ==
    {"update_materia", "delete_materia", "update_evento", "delete_evento"}

\* the tool call names, by id, a subject or an event that store d does not
\* hold or holds for another user
CallTargetMissingOrForeign(call, d, u) ==
    \/ /\ call.name \in {Some("update_materia"), Some("delete_materia")}
       /\ TruthyInt(call.args.materia_id)
       /\ OwnerOfMateria(d, Val(call.args.materia_id)) # u
    \/ /\ call.name \in {Some("update_evento"), Some("delete_evento")}
       /\ TruthyInt(call.args.evento_id)
       /\ OwnerOfEvento(d, Val(call.args.evento_id)) # u

\* C29: in every PlanResult plan_actions returns, every update_materia,
\* delete_materia, update_evento and delete_evento action has allow = True and
\* no conflict; a tool call whose target is missing or foreign gives an error
\* string and no action.
C29_OnlyCreatesBlocked ==
    Planned =>
        /\ \A k \in 1..Len(last.plan.actions) :
              last.plan.actions[k].kind \in UpdateOrDelete =>
                 /\ last.plan.actions[k].allow = Some(TRUE)
                 /\ last.plan.actions[k].conflict = None
        /\ \A i \in 1..Len(last.tool_calls) :
              CallTargetMissingOrForeign(last.tool_calls[i], last.pre, last.usuario_id) =>
                 /\ plan_actions(last.pre, last.usuario_id,
                                 <<last.tool_calls[i]>>).actions = <<>>
                 /\ plan_actions(last.pre, last.usuario_id,
                                 <<last.tool_calls[i]>>).summary.errors # <<>>

\* a plan holds an allowed update or delete, and one of the tool calls of its
\* batch named a missing or foreign target
C29_Witness ==
    /\ Planned
    /\ \E k \in 1..Len(last.plan.actions) :
          /\ last.plan.actions[k].kind \in UpdateOrDelete
          /\ last.plan.actions[k].allow = Some(TRUE)
    /\ \E i \in 1..Len(last.tool_calls) :
          CallTargetMissingOrForeign(last.tool_calls[i], last.pre, last.usuario_id)

\* ------------------------------------------------------------------------
\* C30  Each tool call contributes exactly one item to the plan
\* ------------------------------------------------------------------------
\* what _normalize_tool_call returned for the i-th tool call of the request
NormalizedCall(i) ==
    normalize_tool_call(last.tool_calls[i], last.pre, last.usuario_id)

====
